---- MODULE Spec2Model ----
(***************************************************************************)
(* OpenHome abilities for Proxmox VE (pve), Proxmox Backup Server (pbs)    *)
(* and WHM/cPanel (whm): the API client, the operation functions and the   *)
(* command dispatcher execute_command of each.                             *)
(*                                                                         *)
(* A state is the last call made into one of the three modules: its        *)
(* inputs (call), what it returned or raised (outcome), the operation      *)
(* functions it invoked (invoked) and the HTTP requests it sent            *)
(* (requests).  The backend is the environment: each call draws the        *)
(* responses its requests will get.  config holds the three modules'       *)
(* _config records, attempt how often the call was made in a row, voice    *)
(* what a voice flow did with its capability worker.                       *)
(*                                                                         *)
(* Python values are tagged records; a str is a sequence of one-character  *)
(* strings where the code inspects it (lower, strip, int, sorted, ==).     *)
(* Rounded numbers (round(x, 2)) are held as integers in hundredths.       *)
(***************************************************************************)
EXTENDS Integers, Sequences, FiniteSets, TLC

VARIABLES call, outcome, invoked, requests, config, attempt, voice

vars == <<call, outcome, invoked, requests, config, attempt, voice>>

\* Bounds of the model.
MaxList == 2
MaxNum == 5
MaxAttempts == 2
MaxFails == 8

(***************************************************************************)
(* Python values                                                           *)
(***************************************************************************)
None == [t |-> "none"]
Str(s) == [t |-> "str", s |-> s]
Num(n) == [t |-> "int", n |-> n]
List(xs) == [t |-> "list", xs |-> xs]
Dict(kv) == [t |-> "dict", kv |-> kv]
\* A str literal that no string operation of the code looks into.
Lit(text) == [t |-> "str", s |-> <<text>>]
EmptyStr == Str(<<>>)
EmptyKv == [k \in {} |-> None]
False == [t |-> "bool", b |-> FALSE]

\* Fault: every value counts as true.
Truthy_always(v) == TRUE

\* bool(v): the truth value `if v` / `not v` / `v or d` test.
Truthy(v) ==
  CASE v.t = "none" -> FALSE
    [] v.t = "bool" -> v.b
    [] v.t = "str" -> v.s # <<>>
    [] v.t = "int" -> v.n # 0
    [] v.t = "list" -> v.xs # <<>>
    [] v.t = "dict" -> DOMAIN v.kv # {}

IsInstance(v, type) == v.t = type

\* d.get(k, default)
DictGet(d, k, default) ==
  IF d.t = "dict" /\ k \in DOMAIN d.kv THEN d.kv[k] ELSE default

\* k in d
DictHas(d, k) == d.t = "dict" /\ k \in DOMAIN d.kv

(***************************************************************************)
(* str methods and builtins the dispatchers use                            *)
(***************************************************************************)
UpperChars ==
  <<"A","B","C","D","E","F","G","H","I","J","K","L","M",
    "N","O","P","Q","R","S","T","U","V","W","X","Y","Z">>
LowerChars ==
  <<"a","b","c","d","e","f","g","h","i","j","k","l","m",
    "n","o","p","q","r","s","t","u","v","w","x","y","z">>
Digits == <<"0","1","2","3","4","5","6","7","8","9">>
Whitespace == {" ", "\t", "\n", "\r"}

\* The characters of the model in code point order.
CodePoints ==
  <<"\t", "\n", "\r", " ">> \o Digits \o UpperChars \o <<"_">> \o LowerChars

\* Fault: the command is not lower-cased.
str_lower_forgotten(s) == s

\* s.lower()
str_lower(s) ==
  LET lower_char(c) ==
        IF \E i \in DOMAIN UpperChars : UpperChars[i] = c
        THEN LowerChars[CHOOSE i \in DOMAIN UpperChars : UpperChars[i] = c]
        ELSE c
  IN  [i \in 1..Len(s) |-> lower_char(s[i])]

RECURSIVE str_lstrip(_)
str_lstrip(s) ==
  IF s # <<>> /\ Head(s) \in Whitespace THEN str_lstrip(Tail(s)) ELSE s

RECURSIVE str_rstrip(_)
str_rstrip(s) ==
  IF s # <<>> /\ s[Len(s)] \in Whitespace
  THEN str_rstrip(SubSeq(s, 1, Len(s) - 1))
  ELSE s

\* Fault: the text is used as given, blanks included.
str_strip_forgotten(s) == s

\* s.strip()
str_strip(s) == str_rstrip(str_lstrip(s))

\* a < b on str: lexicographic by code point.
RECURSIVE str_less(_, _)
str_less(a, b) ==
  IF b = <<>> THEN FALSE
  ELSE IF a = <<>> THEN TRUE
  ELSE IF Head(a) = Head(b) THEN str_less(Tail(a), Tail(b))
  ELSE LET CodePoint(c) == CHOOSE i \in DOMAIN CodePoints : CodePoints[i] = c
       IN  CodePoint(Head(a)) < CodePoint(Head(b))

\* Fault: the names are left in table order.
sorted_forgotten(names) == names

\* sorted(names): ascending; the first of equal items first.
RECURSIVE sorted(_)
sorted(names) ==
  IF names = <<>> THEN <<>>
  ELSE LET m == CHOOSE i \in DOMAIN names :
                  \A j \in DOMAIN names :
                    /\ ~str_less(names[j], names[i])
                    /\ (names[j] = names[i] => i <= j)
           RemoveAt(s, i) == SubSeq(s, 1, i - 1) \o SubSeq(s, i + 1, Len(s))
       IN  <<names[m]>> \o sorted(RemoveAt(names, m))

\* int(v): the value, or the exception int() raises.
RECURSIVE digits_value(_)
digits_value(s) ==
  IF s = <<>> THEN 0
  ELSE 10 * digits_value(SubSeq(s, 1, Len(s) - 1))
       + (CHOOSE d \in 0..9 : Digits[d + 1] = s[Len(s)])

\* Fault: int() that accepts every value.
py_int_unchecked(v) == [ok |-> TRUE, n |-> IF v.t = "int" THEN v.n ELSE 0, exc |-> ""]

py_int(v) ==
  LET IsDigits(s) ==
        s # <<>> /\ \A i \in DOMAIN s : \E d \in DOMAIN Digits : Digits[d] = s[i]
  IN
  CASE v.t = "int" -> [ok |-> TRUE, n |-> v.n, exc |-> ""]
    [] v.t = "str" ->
         IF IsDigits(str_strip(v.s))
         THEN [ok |-> TRUE, n |-> digits_value(str_strip(v.s)), exc |-> ""]
         ELSE [ok |-> FALSE, n |-> 0, exc |-> "ValueError"]
    [] OTHER -> [ok |-> FALSE, n |-> 0, exc |-> "TypeError"]

\* round(num / den, 2) in hundredths, den > 0, num >= 0: round half to even.
Round2(num, den) ==
  LET q == (num * 100) \div den
      r == (num * 100) % den
  IN  IF 2 * r < den THEN q
      ELSE IF 2 * r > den THEN q + 1
      ELSE IF q % 2 = 0 THEN q ELSE q + 1

\* Fault: the percentage is cut off after 2 decimals instead of rounded.
percent_truncated(used, total) ==
  (used.n * 100 * 100) \div (IF total.n >= 1 THEN total.n ELSE 1)

\* round(used / max(total, 1) * 100, 2)
percent(used, total) ==
  LET Max(a, b) == IF a >= b THEN a ELSE b
  IN  Round2(used.n * 100, Max(total.n, 1))

\* round(v * 100, 2)
times100(v) == Round2(v.n * 100, 1)

(***************************************************************************)
(* Outcomes, requests and the backend's responses                          *)
(***************************************************************************)
\* What a call ends with: a returned value or a raised exception.  origin is
\* "validation" (raised before any request from the caller's input),
\* "transport" (the HTTP client failed), "api" (the backend reported a
\* failure in its body) or "shape" (raised while reading a response).
Return(v) == [status |-> "ok", value |-> v]
Raise(exc, origin, msg) ==
  [status |-> "raise", exc |-> exc, origin |-> origin, msg |-> msg, value |-> None]

\* An error message: its wording, the command and the argument it names,
\* and the names it lists.
Msg(text, cmd, field, listing) ==
  [text |-> text, cmd |-> cmd, field |-> field, listing |-> listing]

\* One requests.request(...) call of _make_api_request.
Req(method, endpoint, params, body) ==
  [method |-> method, endpoint |-> endpoint, params |-> params, body |-> body]

\* Fault: a call made again answers with the result kept from the call
\* before it and sends nothing.
Op_memo(out, reqs) ==
  IF attempt > 0 THEN [out |-> outcome, reqs |-> <<>>] ELSE [out |-> out, reqs |-> reqs]

\* Fault: the requests an operation sent are left out.
Op_silent(out, reqs) == [out |-> out, reqs |-> <<>>]

\* What an operation function did: its outcome and the requests it sent.
Op(out, reqs) == [out |-> out, reqs |-> reqs]

\* What execute_command did: its outcome, the operation functions it called
\* and the requests sent during the call.
Run(out, calls, reqs) == [out |-> out, calls |-> calls, reqs |-> reqs]

\* A response of the backend: the transport exception requests raises, or the
\* parsed JSON body of a successful HTTP response.
Failure(exc) == [t |-> "fail", exc |-> exc]
Http(body) == [t |-> "http", body |-> body]

\* requests.exceptions: the classes an exception is an instance of.
ExceptionBases ==
  [SSLError |-> {"SSLError", "ConnectionError", "RequestException"},
   ConnectionError |-> {"ConnectionError", "RequestException"},
   ConnectTimeout |-> {"ConnectTimeout", "ConnectionError", "Timeout", "RequestException"},
   ReadTimeout |-> {"ReadTimeout", "Timeout", "RequestException"},
   HTTPError |-> {"HTTPError", "RequestException"}]

TransportExceptions == DOMAIN ExceptionBases

\* The except clauses of _make_api_request, in their order.
transport_error(exc, host_label, api_label) ==
  IF "SSLError" \in ExceptionBases[exc]
  THEN Raise("RequestException", "transport", Msg("SSL Error", <<>>, {}, <<>>))
  ELSE IF "ConnectionError" \in ExceptionBases[exc]
  THEN Raise("RequestException", "transport", Msg(host_label, <<>>, {}, <<>>))
  ELSE IF "Timeout" \in ExceptionBases[exc]
  THEN Raise("RequestException", "transport", Msg("Request timed out", <<>>, {}, <<>>))
  ELSE Raise("RequestException", "transport", Msg(api_label, <<>>, {}, <<>>))

\* result.get("data", result) on the parsed body; a body that is no dict has
\* no get.
unwrap_data(body) ==
  IF body.t = "dict" THEN Return(DictGet(body, "data", body))
  ELSE Raise("AttributeError", "shape", Msg("no attribute 'get'", <<>>, {}, <<>>))

pve_make_api_request(resp) ==
  IF resp.t = "fail"
  THEN transport_error(resp.exc, "Cannot reach Proxmox host", "Proxmox API failed")
  ELSE unwrap_data(resp.body)

pbs_make_api_request(resp) ==
  IF resp.t = "fail"
  THEN transport_error(resp.exc, "Cannot reach PBS host", "PBS API failed")
  ELSE unwrap_data(resp.body)

\* Fault: a payload that is no list is read as a list of that one item.
IterIfList_lenient(data) == IF IsInstance(data, "list") THEN data.xs ELSE <<data>>

\* for x in data if isinstance(data, list) else []
IterIfList(data) == IF IsInstance(data, "list") THEN data.xs ELSE <<>>

IsDict(v) == IsInstance(v, "dict")

\* Fault: the loop keeps every element, whatever its type.
OnlyDicts_unfiltered(xs) == xs

\* The dict items of a sequence, in order: if isinstance(x, dict).
OnlyDicts(xs) == SelectSeq(xs, IsDict)

\* Fault: d.get(src_key) without the default.
Pick_null(d, rows) ==
  [k \in {rows[i][1] : i \in DOMAIN rows} |->
     LET i == CHOOSE i \in DOMAIN rows : rows[i][1] = k
     IN  DictGet(d, rows[i][2], None)]

\* {out_key: d.get(src_key, default), ...} for the rows <<out_key, src_key, default>>.
Pick(d, rows) ==
  [k \in {rows[i][1] : i \in DOMAIN rows} |->
     LET i == CHOOSE i \in DOMAIN rows : rows[i][1] = k
     IN  DictGet(d, rows[i][2], rows[i][3])]

\* Fault: a request whose response made the client raise is sent again.
Finish_retry(reqs, r, value) ==
  Op(IF r.status = "raise" THEN r ELSE Return(value),
     IF r.status = "raise" THEN reqs \o reqs ELSE reqs)

\* An operation that sent its requests and returns value unless a response
\* made the client raise.
Finish(reqs, r, value) ==
  Op(IF r.status = "raise" THEN r ELSE Return(value), reqs)

(***************************************************************************)
(* Proxmox VE: operation functions (src/proxmox/main.py)                   *)
(***************************************************************************)
\* An endpoint f-string and the values formatted into it.
Path(template, values) == [template |-> template, values |-> values]
NoParams == Dict(EmptyKv)

pve_list_nodes(resps) ==
  LET r == pve_make_api_request(resps[1])
      nodes_data == OnlyDicts(IterIfList(r.value))
      nodes == [i \in DOMAIN nodes_data |->
                 LET node == nodes_data[i] IN
                 Pick(node, << <<"name", "node", EmptyStr>>,
                               <<"status", "status", Lit("unknown")>>,
                               <<"memory_used", "mem", Num(0)>>,
                               <<"memory_total", "maxmem", Num(0)>>,
                               <<"uptime_seconds", "uptime", Num(0)>>,
                               <<"disk_used", "disk", Num(0)>>,
                               <<"disk_total", "maxdisk", Num(0)>> >>)
                 @@ [cpu_usage |-> times100(DictGet(node, "cpu", Num(0))),
                     memory_percent |->
                       percent(DictGet(node, "mem", Num(0)),
                               DictGet(node, "maxmem", Num(1)))]]
  IN  Finish(<<Req("GET", Path("nodes", <<>>), None, None)>>, r,
             [nodes |-> nodes, total |-> Len(nodes)])

pve_get_node_status(node, resps) ==
  LET r == pve_make_api_request(resps[1])
      data == r.value
      cpu_info == DictGet(data, "cpuinfo", Dict(EmptyKv))
      memory == DictGet(data, "memory", Dict(EmptyKv))
      root_fs == DictGet(data, "rootfs", Dict(EmptyKv))
      ksm == DictGet(data, "ksm", Dict(EmptyKv))
  IN  Finish(<<Req("GET", Path("nodes/{node}/status", <<node>>), None, None)>>, r,
        IF ~IsInstance(data, "dict")
        THEN [node |-> node, status |-> Lit("unknown")]
        ELSE [node |-> node,
              uptime_seconds |-> DictGet(data, "uptime", Num(0)),
              cpu |-> Pick(cpu_info, << <<"model", "model", EmptyStr>>,
                                        <<"cores", "cores", Num(0)>>,
                                        <<"sockets", "sockets", Num(0)>> >>)
                      @@ [usage_percent |-> times100(DictGet(data, "cpu", Num(0))),
                          load_average |-> DictGet(data, "loadavg", List(<<>>))],
              memory |-> Pick(memory, << <<"total_bytes", "total", Num(0)>>,
                                         <<"used_bytes", "used", Num(0)>>,
                                         <<"free_bytes", "free", Num(0)>> >>)
                         @@ [percent_used |->
                               percent(DictGet(memory, "used", Num(0)),
                                       DictGet(memory, "total", Num(1)))],
              disk |-> Pick(root_fs, << <<"total_bytes", "total", Num(0)>>,
                                        <<"used_bytes", "used", Num(0)>>,
                                        <<"free_bytes", "avail", Num(0)>> >>)
                       @@ [percent_used |->
                             percent(DictGet(root_fs, "used", Num(0)),
                                     DictGet(root_fs, "total", Num(1)))],
              ksm |-> Pick(ksm, << <<"shared", "shared", Num(0)>> >>),
              kernel_version |-> DictGet(data, "kversion", EmptyStr),
              pve_version |-> DictGet(data, "pveversion", EmptyStr)])

\* The entry list_vms and list_containers build for one guest.
pve_guest_entry(vm) ==
  Pick(vm, << <<"vmid", "vmid", Num(0)>>,
              <<"name", "name", EmptyStr>>,
              <<"status", "status", Lit("unknown")>>,
              <<"memory_used", "mem", Num(0)>>,
              <<"memory_total", "maxmem", Num(0)>>,
              <<"disk_used", "disk", Num(0)>>,
              <<"disk_total", "maxdisk", Num(0)>>,
              <<"uptime_seconds", "uptime", Num(0)>> >>)
  @@ [cpu_usage |-> times100(DictGet(vm, "cpu", Num(0)))]

pve_list_vms(node, resps) ==
  LET r == pve_make_api_request(resps[1])
      vms_data == OnlyDicts(IterIfList(r.value))
      vms == [i \in DOMAIN vms_data |-> pve_guest_entry(vms_data[i])]
  IN  Finish(<<Req("GET", Path("nodes/{node}/qemu", <<node>>), None, None)>>, r,
             [node |-> node, vms |-> vms, total |-> Len(vms)])

pve_get_vm_status(node, vmid, resps) ==
  LET r == pve_make_api_request(resps[1])
      data == r.value
  IN  Finish(<<Req("GET", Path("nodes/{node}/qemu/{vmid}/status/current",
                               <<node, vmid>>), None, None)>>, r,
        IF ~IsInstance(data, "dict")
        THEN [node |-> node, vmid |-> vmid, status |-> Lit("unknown")]
        ELSE [node |-> node, vmid |-> vmid,
              cpu_usage |-> times100(DictGet(data, "cpu", Num(0)))]
             @@ Pick(data, << <<"name", "name", EmptyStr>>,
                              <<"status", "status", Lit("unknown")>>,
                              <<"cpus", "cpus", Num(0)>>,
                              <<"memory_used", "mem", Num(0)>>,
                              <<"memory_total", "maxmem", Num(0)>>,
                              <<"disk_used", "disk", Num(0)>>,
                              <<"disk_total", "maxdisk", Num(0)>>,
                              <<"uptime_seconds", "uptime", Num(0)>>,
                              <<"pid", "pid", None>>,
                              <<"qmp_status", "qmpstatus", EmptyStr>> >>))

\* Fault: the operation asks for the task's status after starting it.
pve_guest_action_polls(kind, action, node, vmid, resps) ==
  LET r == pve_make_api_request(resps[1])
  IN  Finish(<<Req("POST", Path("nodes/{node}/" \o kind \o "/{vmid}/status/" \o action,
                                <<node, vmid>>), None, None),
               Req("GET", Path("nodes/{node}/tasks/{upid}/status", <<node, r.value>>), None, None)>>,
             r, [node |-> node, vmid |-> vmid, action |-> action, task_id |-> r.value])

\* start_vm, stop_vm, reboot_vm, shutdown_vm (kind qemu) and start_container,
\* stop_container, reboot_container (kind lxc): one POST, and the envelope.
pve_guest_action(kind, action, node, vmid, resps) ==
  LET r == pve_make_api_request(resps[1])
  IN  Finish(<<Req("POST", Path("nodes/{node}/" \o kind \o "/{vmid}/status/" \o action,
                                <<node, vmid>>), None, None)>>, r,
             [node |-> node, vmid |-> vmid, action |-> action, task_id |-> r.value])

pve_start_vm(node, vmid, resps) == pve_guest_action("qemu", "start", node, vmid, resps)
pve_stop_vm(node, vmid, resps) == pve_guest_action("qemu", "stop", node, vmid, resps)
pve_reboot_vm(node, vmid, resps) == pve_guest_action("qemu", "reboot", node, vmid, resps)
pve_shutdown_vm(node, vmid, resps) == pve_guest_action("qemu", "shutdown", node, vmid, resps)

pve_list_containers(node, resps) ==
  LET r == pve_make_api_request(resps[1])
      ct_data == OnlyDicts(IterIfList(r.value))
      containers == [i \in DOMAIN ct_data |-> pve_guest_entry(ct_data[i])]
  IN  Finish(<<Req("GET", Path("nodes/{node}/lxc", <<node>>), None, None)>>, r,
             [node |-> node, containers |-> containers, total |-> Len(containers)])

pve_start_container(node, vmid, resps) == pve_guest_action("lxc", "start", node, vmid, resps)
pve_stop_container(node, vmid, resps) == pve_guest_action("lxc", "stop", node, vmid, resps)
pve_reboot_container(node, vmid, resps) == pve_guest_action("lxc", "reboot", node, vmid, resps)

pve_list_storage(node, resps) ==
  LET r == pve_make_api_request(resps[1])
      st_data == OnlyDicts(IterIfList(r.value))
      storages == [i \in DOMAIN st_data |->
                    LET st == st_data[i]
                        total == DictGet(st, "total", Num(0))
                        used == DictGet(st, "used", Num(0))
                    IN  Pick(st, << <<"storage", "storage", EmptyStr>>,
                                    <<"type", "type", EmptyStr>>,
                                    <<"content", "content", EmptyStr>>,
                                    <<"status", "status", EmptyStr>>,
                                    <<"active", "active", Num(0)>>,
                                    <<"available_bytes", "avail", Num(0)>> >>)
                        @@ [total_bytes |-> total,
                            used_bytes |-> used,
                            percent_used |-> percent(used, total)]]
  IN  Finish(<<Req("GET", Path("nodes/{node}/storage", <<node>>), None, None)>>, r,
             [node |-> node, storage |-> storages, total |-> Len(storages)])

pve_get_cluster_status(resps) ==
  LET r == pve_make_api_request(resps[1])
      data == OnlyDicts(IterIfList(r.value))
      entries == [i \in DOMAIN data |->
                   Pick(data[i], << <<"name", "name", EmptyStr>>,
                                    <<"type", "type", EmptyStr>>,
                                    <<"online", "online", Num(0)>>,
                                    <<"nodeid", "nodeid", None>>,
                                    <<"ip", "ip", EmptyStr>>,
                                    <<"level", "level", EmptyStr>>,
                                    <<"local", "local", Num(0)>> >>)]
  IN  Finish(<<Req("GET", Path("cluster/status", <<>>), None, None)>>, r,
             [cluster |-> entries, total |-> Len(entries)])

pve_list_cluster_resources(resource_type, resps) ==
  LET params == IF Truthy(resource_type)
                THEN Dict([k \in {"type"} |-> resource_type])
                ELSE Dict(EmptyKv)
      r == pve_make_api_request(resps[1])
      data == OnlyDicts(IterIfList(r.value))
      resources == [i \in DOMAIN data |->
                     Pick(data[i], << <<"id", "id", EmptyStr>>,
                                      <<"type", "type", EmptyStr>>,
                                      <<"node", "node", EmptyStr>>,
                                      <<"name", "name", EmptyStr>>,
                                      <<"status", "status", EmptyStr>>,
                                      <<"cpu", "cpu", Num(0)>>,
                                      <<"maxcpu", "maxcpu", Num(0)>>,
                                      <<"mem", "mem", Num(0)>>,
                                      <<"maxmem", "maxmem", Num(0)>>,
                                      <<"disk", "disk", Num(0)>>,
                                      <<"maxdisk", "maxdisk", Num(0)>>,
                                      <<"uptime", "uptime", Num(0)>> >>)]
  IN  Finish(<<Req("GET", Path("cluster/resources", <<>>), params, None)>>, r,
             [resources |-> resources, total |-> Len(resources)])

pve_list_tasks(node, limit, resps) ==
  LET r == pve_make_api_request(resps[1])
      data == OnlyDicts(IterIfList(r.value))
      tasks == [i \in DOMAIN data |->
                 Pick(data[i], << <<"upid", "upid", EmptyStr>>,
                                  <<"type", "type", EmptyStr>>,
                                  <<"status", "status", EmptyStr>>,
                                  <<"user", "user", EmptyStr>>,
                                  <<"starttime", "starttime", Num(0)>>,
                                  <<"endtime", "endtime", Num(0)>>,
                                  <<"node", "node", EmptyStr>> >>)]
  IN  Finish(<<Req("GET", Path("nodes/{node}/tasks", <<node>>),
                   Dict([k \in {"limit"} |-> limit]), None)>>, r,
             [node |-> node, tasks |-> tasks, total |-> Len(tasks)])

(***************************************************************************)
(* Proxmox VE: command router (src/proxmox/main.py)                        *)
(***************************************************************************)
\* A dict held in insertion order: the rows <<key, value>>.
MapKeys(m) == [i \in DOMAIN m |-> m[i][1]]
MapHas(m, k) == \E i \in DOMAIN m : m[i][1] = k
\* m.get(k): the value, or NoFunc (None) when k is no key.
NoFunc == "None"
MapGet(m, k) ==
  IF MapHas(m, k) THEN m[CHOOSE i \in DOMAIN m : m[i][1] = k][2] ELSE NoFunc

\* execute_command raising before it called anything.
Reject(exc, msg) == Run(Raise(exc, "validation", msg), <<>>, <<>>)

\* Fault: the operation function is called twice.
Invoke_twice(func, args, op) ==
  Run(op.out, <<[func |-> func, args |-> args], [func |-> func, args |-> args]>>, op.reqs \o op.reqs)

\* execute_command returning what the one operation function it called did.
Invoke(func, args, op) == Run(op.out, <<[func |-> func, args |-> args]>>, op.reqs)

\* Fault: the dispatcher calls the operation without its arguments.
Positional_none(a) == [ok |-> TRUE, args |-> <<>>, exc |-> "", msg |-> <<>>]

\* The argument binding of a dispatcher: the positional arguments it passes,
\* or the exception it raises instead of calling.
Positional(a) == [ok |-> TRUE, args |-> a, exc |-> "", msg |-> <<>>]

\* Fault: the dispatcher calls the operation where it should raise.
Refuse_ignored(exc, msg) == [ok |-> TRUE, args |-> <<>>, exc |-> "", msg |-> <<>>]

\* The binding that raises.
Refuse(exc, msg) == [ok |-> FALSE, args |-> <<>>, exc |-> exc, msg |-> msg]

\* A call with arguments the function's signature does not accept.
BadCall == Op(Raise("TypeError", "call", Msg("missing required positional argument", <<>>, {}, <<>>)), <<>>)

pve_cmd_map ==
  << <<<<"l","i","s","t","_","n","o","d","e","s">>, "list_nodes">>,
     <<<<"n","o","d","e","s">>, "list_nodes">>,
     <<<<"g","e","t","_","n","o","d","e","_","s","t","a","t","u","s">>, "get_node_status">>,
     <<<<"n","o","d","e","_","s","t","a","t","u","s">>, "get_node_status">>,
     <<<<"l","i","s","t","_","v","m","s">>, "list_vms">>,
     <<<<"v","m","s">>, "list_vms">>,
     <<<<"g","e","t","_","v","m","_","s","t","a","t","u","s">>, "get_vm_status">>,
     <<<<"v","m","_","s","t","a","t","u","s">>, "get_vm_status">>,
     <<<<"s","t","a","r","t","_","v","m">>, "start_vm">>,
     <<<<"s","t","o","p","_","v","m">>, "stop_vm">>,
     <<<<"r","e","b","o","o","t","_","v","m">>, "reboot_vm">>,
     <<<<"s","h","u","t","d","o","w","n","_","v","m">>, "shutdown_vm">>,
     <<<<"l","i","s","t","_","c","o","n","t","a","i","n","e","r","s">>, "list_containers">>,
     <<<<"c","o","n","t","a","i","n","e","r","s">>, "list_containers">>,
     <<<<"s","t","a","r","t","_","c","o","n","t","a","i","n","e","r">>, "start_container">>,
     <<<<"s","t","o","p","_","c","o","n","t","a","i","n","e","r">>, "stop_container">>,
     <<<<"r","e","b","o","o","t","_","c","o","n","t","a","i","n","e","r">>, "reboot_container">>,
     <<<<"l","i","s","t","_","s","t","o","r","a","g","e">>, "list_storage">>,
     <<<<"s","t","o","r","a","g","e">>, "list_storage">>,
     <<<<"g","e","t","_","c","l","u","s","t","e","r","_","s","t","a","t","u","s">>, "get_cluster_status">>,
     <<<<"c","l","u","s","t","e","r">>, "get_cluster_status">>,
     <<<<"l","i","s","t","_","c","l","u","s","t","e","r","_","r","e","s","o","u","r","c","e","s">>, "list_cluster_resources">>,
     <<<<"c","l","u","s","t","e","r","_","r","e","s","o","u","r","c","e","s">>, "list_cluster_resources">>,
     <<<<"l","i","s","t","_","t","a","s","k","s">>, "list_tasks">>,
     <<<<"t","a","s","k","s">>, "list_tasks">> >>

\* sorted(cmd_map.keys()), the names the unknown-command error lists.
pve_valid_names == sorted(MapKeys(pve_cmd_map))

\* func(*args) for a function object of the module.
pve_call(func, args, resps) ==
  LET n == Len(args) IN
  CASE func = "list_nodes" /\ n = 0 -> pve_list_nodes(resps)
    [] func = "get_node_status" /\ n = 1 -> pve_get_node_status(args[1], resps)
    [] func = "list_vms" /\ n = 1 -> pve_list_vms(args[1], resps)
    [] func = "get_vm_status" /\ n = 2 -> pve_get_vm_status(args[1], args[2], resps)
    [] func = "start_vm" /\ n = 2 -> pve_start_vm(args[1], args[2], resps)
    [] func = "stop_vm" /\ n = 2 -> pve_stop_vm(args[1], args[2], resps)
    [] func = "reboot_vm" /\ n = 2 -> pve_reboot_vm(args[1], args[2], resps)
    [] func = "shutdown_vm" /\ n = 2 -> pve_shutdown_vm(args[1], args[2], resps)
    [] func = "list_containers" /\ n = 1 -> pve_list_containers(args[1], resps)
    [] func = "start_container" /\ n = 2 -> pve_start_container(args[1], args[2], resps)
    [] func = "stop_container" /\ n = 2 -> pve_stop_container(args[1], args[2], resps)
    [] func = "reboot_container" /\ n = 2 -> pve_reboot_container(args[1], args[2], resps)
    [] func = "list_storage" /\ n = 1 -> pve_list_storage(args[1], resps)
    [] func = "get_cluster_status" /\ n = 0 -> pve_get_cluster_status(resps)
    [] func = "list_cluster_resources" /\ n = 0 -> pve_list_cluster_resources(EmptyStr, resps)
    [] func = "list_cluster_resources" /\ n = 1 -> pve_list_cluster_resources(args[1], resps)
    [] func = "list_tasks" /\ n = 1 -> pve_list_tasks(args[1], Num(20), resps)
    [] func = "list_tasks" /\ n = 2 -> pve_list_tasks(args[1], args[2], resps)
    [] OTHER -> BadCall

pve_execute_command(command_arg, args_arg, resps) ==
  LET command == str_strip(str_lower(command_arg))
      args == IF Truthy(args_arg) THEN args_arg ELSE Dict(EmptyKv)
      func == MapGet(pve_cmd_map, command)
      node == DictGet(args, "node", EmptyStr)
      vmid == DictGet(args, "vmid", None)
      vmid_int == py_int(vmid)
      bound ==
        IF func = NoFunc
        THEN Refuse("ValueError",
                    Msg("Unknown command '{command}'. Valid: {names}", command, {},
                        pve_valid_names))
        ELSE IF func \in {"list_nodes", "get_cluster_status"}
        THEN Positional(<<>>)
        ELSE IF ~Truthy(node) /\ func \notin {"list_cluster_resources"}
        THEN Refuse("ValueError", Msg("{command} requires a 'node' argument", command, {"node"}, <<>>))
        ELSE IF func = "list_cluster_resources"
        THEN Positional(<<DictGet(args, "type", EmptyStr)>>)
        ELSE IF func \in {"get_node_status"}
        THEN Positional(<<node>>)
        ELSE IF func \in {"list_vms", "list_containers", "list_storage"}
        THEN Positional(<<node>>)
        ELSE IF func = "list_tasks"
        THEN Positional(<<node, DictGet(args, "limit", Num(20))>>)
        ELSE IF vmid.t = "none"
        THEN Refuse("ValueError", Msg("{command} requires a 'vmid' argument", command, {"vmid"}, <<>>))
        ELSE IF ~vmid_int.ok
        THEN Refuse(vmid_int.exc, Msg("int() cannot convert the value", <<>>, {}, <<>>))
        ELSE IF func \in {"get_vm_status", "start_vm", "stop_vm", "reboot_vm", "shutdown_vm"}
        THEN Positional(<<node, Num(vmid_int.n)>>)
        ELSE IF func \in {"start_container", "stop_container", "reboot_container"}
        THEN Positional(<<node, Num(vmid_int.n)>>)
        ELSE Positional(<<>>)
  IN
  IF bound.ok
  THEN Invoke(func, bound.args, pve_call(func, bound.args, resps))
  ELSE Reject(bound.exc, bound.msg)
(***************************************************************************)
(* Proxmox Backup Server: operation functions (src/proxmox_backup/main.py) *)
(***************************************************************************)
pbs_get_node_status(resps) ==
  LET r == pbs_make_api_request(resps[1])
      data == r.value
      cpu_info == DictGet(data, "cpuinfo", Dict(EmptyKv))
      memory == DictGet(data, "memory", Dict(EmptyKv))
      root == DictGet(data, "root", Dict(EmptyKv))
      info == DictGet(data, "info", Dict(EmptyKv))
  IN  Finish(<<Req("GET", Path("nodes/localhost/status", <<>>), None, None)>>, r,
        IF ~IsInstance(data, "dict")
        THEN [status |-> Lit("unknown")]
        ELSE [uptime_seconds |-> DictGet(data, "uptime", Num(0)),
              cpu |-> Pick(cpu_info, << <<"model", "model", EmptyStr>>,
                                        <<"cores", "cores", Num(0)>>,
                                        <<"sockets", "sockets", Num(0)>> >>)
                      @@ [usage_percent |-> times100(DictGet(data, "cpu", Num(0))),
                          load_average |-> DictGet(data, "loadavg", List(<<>>))],
              memory |-> Pick(memory, << <<"total_bytes", "total", Num(0)>>,
                                         <<"used_bytes", "used", Num(0)>>,
                                         <<"free_bytes", "free", Num(0)>> >>)
                         @@ [percent_used |->
                               percent(DictGet(memory, "used", Num(0)),
                                       DictGet(memory, "total", Num(1)))],
              disk |-> Pick(root, << <<"total_bytes", "total", Num(0)>>,
                                     <<"used_bytes", "used", Num(0)>>,
                                     <<"available_bytes", "avail", Num(0)>> >>)
                       @@ [percent_used |->
                             percent(DictGet(root, "used", Num(0)),
                                     DictGet(root, "total", Num(1)))],
              version |-> DictGet(info, "version", EmptyStr),
              kernel_version |-> DictGet(data, "kversion", EmptyStr)])

pbs_list_datastores(resps) ==
  LET r == pbs_make_api_request(resps[1])
      ds_data == OnlyDicts(IterIfList(r.value))
      datastores == [i \in DOMAIN ds_data |->
                      Pick(ds_data[i], << <<"name", "name", EmptyStr>>,
                                          <<"path", "path", EmptyStr>>,
                                          <<"comment", "comment", EmptyStr>> >>)]
  IN  Finish(<<Req("GET", Path("admin/datastore", <<>>), None, None)>>, r,
             [datastores |-> datastores, total |-> Len(datastores)])

\* Two requests: the datastore's configuration, then the usage listing, from
\* which the first dict item whose "store" equals the datastore is taken.
pbs_get_datastore_status(datastore, resps) ==
  LET r1 == pbs_make_api_request(resps[1])
      data == IF IsInstance(r1.value, "dict") THEN r1.value ELSE Dict(EmptyKv)
      r2 == pbs_make_api_request(resps[2])
      usage == IterIfList(r2.value)
      matches == {i \in DOMAIN usage :
                    /\ IsInstance(usage[i], "dict")
                    /\ DictHas(usage[i], "store")
                    /\ usage[i].kv["store"] = datastore}
      ds_usage == IF matches = {} THEN Dict(EmptyKv)
                  ELSE usage[CHOOSE i \in matches : \A j \in matches : i <= j]
      total == DictGet(ds_usage, "total", Num(0))
      used == DictGet(ds_usage, "used", Num(0))
      avail == DictGet(ds_usage, "avail", Num(0))
      req1 == Req("GET", Path("admin/datastore/{datastore}", <<datastore>>), None, None)
      req2 == Req("GET", Path("status/datastore-usage", <<>>), None, None)
  IN  IF r1.status = "raise" THEN Op(r1, <<req1>>)
      ELSE Finish(<<req1, req2>>, r2,
             [datastore |-> datastore,
              path |-> DictGet(data, "path", EmptyStr),
              comment |-> DictGet(data, "comment", EmptyStr),
              total_bytes |-> total,
              used_bytes |-> used,
              available_bytes |-> avail,
              percent_used |-> percent(used, total),
              gc_schedule |-> DictGet(data, "gc-schedule", EmptyStr),
              prune_schedule |-> DictGet(data, "prune-schedule", EmptyStr)])

\* The dict of the rows <<key, value>> whose value is truthy.
TruthyParams(rows) ==
  Dict([k \in {rows[i][1] : i \in {j \in DOMAIN rows : Truthy(rows[j][2])}} |->
          rows[CHOOSE i \in DOMAIN rows : rows[i][1] = k][2]])

pbs_list_datastore_snapshots(datastore, backup_type, backup_id, resps) ==
  LET params == TruthyParams(<< <<"backup-type", backup_type>>,
                                <<"backup-id", backup_id>> >>)
      r == pbs_make_api_request(resps[1])
      data == OnlyDicts(IterIfList(r.value))
      snapshots == [i \in DOMAIN data |->
                     Pick(data[i], << <<"backup_type", "backup-type", EmptyStr>>,
                                      <<"backup_id", "backup-id", EmptyStr>>,
                                      <<"backup_time", "backup-time", Num(0)>>,
                                      <<"size", "size", Num(0)>>,
                                      <<"owner", "owner", EmptyStr>>,
                                      <<"verification", "verification", Dict(EmptyKv)>>,
                                      <<"protected", "protected", False>> >>)]
  IN  Finish(<<Req("GET", Path("admin/datastore/{datastore}/snapshots", <<datastore>>),
                   params, None)>>, r,
             [datastore |-> datastore, snapshots |-> snapshots, total |-> Len(snapshots)])

pbs_list_backup_groups(datastore, resps) ==
  LET r == pbs_make_api_request(resps[1])
      data == OnlyDicts(IterIfList(r.value))
      groups == [i \in DOMAIN data |->
                  Pick(data[i], << <<"backup_type", "backup-type", EmptyStr>>,
                                   <<"backup_id", "backup-id", EmptyStr>>,
                                   <<"last_backup", "last-backup", Num(0)>>,
                                   <<"backup_count", "backup-count", Num(0)>>,
                                   <<"owner", "owner", EmptyStr>> >>)]
  IN  Finish(<<Req("GET", Path("admin/datastore/{datastore}/groups", <<datastore>>),
                   None, None)>>, r,
             [datastore |-> datastore, groups |-> groups, total |-> Len(groups)])

pbs_list_sync_jobs(resps) ==
  LET r == pbs_make_api_request(resps[1])
      data == OnlyDicts(IterIfList(r.value))
      jobs == [i \in DOMAIN data |->
                Pick(data[i], << <<"id", "id", EmptyStr>>,
                                 <<"store", "store", EmptyStr>>,
                                 <<"remote", "remote", EmptyStr>>,
                                 <<"remote_store", "remote-store", EmptyStr>>,
                                 <<"schedule", "schedule", EmptyStr>>,
                                 <<"comment", "comment", EmptyStr>>,
                                 <<"remove_vanished", "remove-vanished", False>> >>)]
  IN  Finish(<<Req("GET", Path("admin/sync", <<>>), None, None)>>, r,
             [sync_jobs |-> jobs, total |-> Len(jobs)])

pbs_run_sync_job(job_id, resps) ==
  LET r == pbs_make_api_request(resps[1])
  IN  Finish(<<Req("POST", Path("admin/sync/{job_id}/run", <<job_id>>), None, None)>>, r,
             [job_id |-> job_id, action |-> "run", task_id |-> r.value])

pbs_list_verify_jobs(resps) ==
  LET r == pbs_make_api_request(resps[1])
      data == OnlyDicts(IterIfList(r.value))
      jobs == [i \in DOMAIN data |->
                Pick(data[i], << <<"id", "id", EmptyStr>>,
                                 <<"store", "store", EmptyStr>>,
                                 <<"schedule", "schedule", EmptyStr>>,
                                 <<"comment", "comment", EmptyStr>>,
                                 <<"ignore_verified", "ignore-verified", False>>,
                                 <<"outdated_after", "outdated-after", EmptyStr>> >>)]
  IN  Finish(<<Req("GET", Path("admin/verify", <<>>), None, None)>>, r,
             [verify_jobs |-> jobs, total |-> Len(jobs)])

pbs_run_verify_job(job_id, resps) ==
  LET r == pbs_make_api_request(resps[1])
  IN  Finish(<<Req("POST", Path("admin/verify/{job_id}/run", <<job_id>>), None, None)>>, r,
             [job_id |-> job_id, action |-> "run", task_id |-> r.value])

pbs_run_garbage_collection(datastore, resps) ==
  LET r == pbs_make_api_request(resps[1])
  IN  Finish(<<Req("POST", Path("admin/datastore/{datastore}/gc", <<datastore>>),
                   None, None)>>, r,
             [datastore |-> datastore, action |-> "gc", task_id |-> r.value])

\* keep > 0 on an int; on a value that is no number the comparison raises.
IsNumber(v) == v.t = "int"

\* Fault: keep >= 0 in place of keep > 0.
Positive_or_zero(v) == IsNumber(v) /\ v.n >= 0

Positive(v) == IsNumber(v) /\ v.n > 0

\* The keep-* keys of the prune body: those whose value is > 0.
prune_keeps(keeps) ==
  LET names == <<"keep-last", "keep-daily", "keep-weekly", "keep-monthly", "keep-yearly">>
  IN  [k \in {names[i] : i \in {j \in DOMAIN names : Positive(keeps[j])}} |->
         keeps[CHOOSE i \in DOMAIN names : names[i] = k]]

pbs_run_prune(datastore, backup_type, backup_id, keeps, resps) ==
  LET prune_data == Dict([k \in {"backup-type", "backup-id"} |->
                            IF k = "backup-type" THEN backup_type ELSE backup_id]
                         @@ prune_keeps(keeps))
      r == pbs_make_api_request(resps[1])
  IN  IF \E i \in DOMAIN keeps : ~IsNumber(keeps[i])
      THEN Op(Raise("TypeError", "validation",
                    Msg("'>' not supported between instances", <<>>, {}, <<>>)), <<>>)
      ELSE Finish(<<Req("POST", Path("admin/datastore/{datastore}/prune", <<datastore>>),
                        None, prune_data)>>, r,
                  [datastore |-> datastore, action |-> "prune", result |-> r.value])

pbs_list_tasks(limit, resps) ==
  LET r == pbs_make_api_request(resps[1])
      data == OnlyDicts(IterIfList(r.value))
      tasks == [i \in DOMAIN data |->
                 Pick(data[i], << <<"upid", "upid", EmptyStr>>,
                                  <<"worker_type", "worker_type", EmptyStr>>,
                                  <<"worker_id", "worker_id", EmptyStr>>,
                                  <<"status", "status", EmptyStr>>,
                                  <<"user", "user", EmptyStr>>,
                                  <<"starttime", "starttime", Num(0)>>,
                                  <<"endtime", "endtime", Num(0)>> >>)]
  IN  Finish(<<Req("GET", Path("nodes/localhost/tasks", <<>>),
                   Dict([k \in {"limit"} |-> limit]), None)>>, r,
             [tasks |-> tasks, total |-> Len(tasks)])

pbs_get_task_status(upid, resps) ==
  LET r == pbs_make_api_request(resps[1])
      data == r.value
  IN  Finish(<<Req("GET", Path("nodes/localhost/tasks/{upid}/status", <<upid>>),
                   None, None)>>, r,
        IF ~IsInstance(data, "dict")
        THEN [upid |-> upid, status |-> Lit("unknown")]
        ELSE [upid |-> upid]
             @@ Pick(data, << <<"status", "status", Lit("unknown")>>,
                              <<"exitstatus", "exitstatus", EmptyStr>>,
                              <<"type", "type", EmptyStr>>,
                              <<"starttime", "starttime", Num(0)>>,
                              <<"endtime", "endtime", Num(0)>> >>))

(***************************************************************************)
(* Proxmox Backup Server: command router (src/proxmox_backup/main.py)      *)
(***************************************************************************)
pbs_cmd_map ==
  << <<<<"g","e","t","_","n","o","d","e","_","s","t","a","t","u","s">>, "get_node_status">>,
     <<<<"n","o","d","e","_","s","t","a","t","u","s">>, "get_node_status">>,
     <<<<"l","i","s","t","_","d","a","t","a","s","t","o","r","e","s">>, "list_datastores">>,
     <<<<"d","a","t","a","s","t","o","r","e","s">>, "list_datastores">>,
     <<<<"g","e","t","_","d","a","t","a","s","t","o","r","e","_","s","t","a","t","u","s">>, "get_datastore_status">>,
     <<<<"d","a","t","a","s","t","o","r","e","_","s","t","a","t","u","s">>, "get_datastore_status">>,
     <<<<"l","i","s","t","_","s","n","a","p","s","h","o","t","s">>, "list_datastore_snapshots">>,
     <<<<"s","n","a","p","s","h","o","t","s">>, "list_datastore_snapshots">>,
     <<<<"l","i","s","t","_","b","a","c","k","u","p","_","g","r","o","u","p","s">>, "list_backup_groups">>,
     <<<<"b","a","c","k","u","p","_","g","r","o","u","p","s">>, "list_backup_groups">>,
     <<<<"l","i","s","t","_","s","y","n","c","_","j","o","b","s">>, "list_sync_jobs">>,
     <<<<"s","y","n","c","_","j","o","b","s">>, "list_sync_jobs">>,
     <<<<"r","u","n","_","s","y","n","c","_","j","o","b">>, "run_sync_job">>,
     <<<<"l","i","s","t","_","v","e","r","i","f","y","_","j","o","b","s">>, "list_verify_jobs">>,
     <<<<"v","e","r","i","f","y","_","j","o","b","s">>, "list_verify_jobs">>,
     <<<<"r","u","n","_","v","e","r","i","f","y","_","j","o","b">>, "run_verify_job">>,
     <<<<"r","u","n","_","g","c">>, "run_garbage_collection">>,
     <<<<"g","c">>, "run_garbage_collection">>,
     <<<<"r","u","n","_","p","r","u","n","e">>, "run_prune">>,
     <<<<"p","r","u","n","e">>, "run_prune">>,
     <<<<"l","i","s","t","_","t","a","s","k","s">>, "list_tasks">>,
     <<<<"t","a","s","k","s">>, "list_tasks">>,
     <<<<"g","e","t","_","t","a","s","k","_","s","t","a","t","u","s">>, "get_task_status">>,
     <<<<"t","a","s","k","_","s","t","a","t","u","s">>, "get_task_status">> >>

\* The keep_* parameters of run_prune from its positional arguments 4..8,
\* each 0 when not passed.
prune_keep_args(args) == [i \in 1..5 |-> IF Len(args) >= 3 + i THEN args[3 + i] ELSE Num(0)]

\* sorted(cmd_map.keys()), the names the unknown-command error lists.
pbs_valid_names == sorted(MapKeys(pbs_cmd_map))

\* func(*args) for a function object of the module.
pbs_call(func, args, resps) ==
  LET n == Len(args) IN
  CASE func = "get_node_status" /\ n = 0 -> pbs_get_node_status(resps)
    [] func = "list_datastores" /\ n = 0 -> pbs_list_datastores(resps)
    [] func = "get_datastore_status" /\ n = 1 -> pbs_get_datastore_status(args[1], resps)
    [] func = "list_datastore_snapshots" /\ n \in 1..3 ->
         pbs_list_datastore_snapshots(args[1],
                                      IF n >= 2 THEN args[2] ELSE EmptyStr,
                                      IF n >= 3 THEN args[3] ELSE EmptyStr, resps)
    [] func = "list_backup_groups" /\ n = 1 -> pbs_list_backup_groups(args[1], resps)
    [] func = "list_sync_jobs" /\ n = 0 -> pbs_list_sync_jobs(resps)
    [] func = "run_sync_job" /\ n = 1 -> pbs_run_sync_job(args[1], resps)
    [] func = "list_verify_jobs" /\ n = 0 -> pbs_list_verify_jobs(resps)
    [] func = "run_verify_job" /\ n = 1 -> pbs_run_verify_job(args[1], resps)
    [] func = "run_garbage_collection" /\ n = 1 -> pbs_run_garbage_collection(args[1], resps)
    [] func = "run_prune" /\ n \in 3..8 ->
         pbs_run_prune(args[1], args[2], args[3], prune_keep_args(args), resps)
    [] func = "list_tasks" /\ n = 0 -> pbs_list_tasks(Num(20), resps)
    [] func = "list_tasks" /\ n = 1 -> pbs_list_tasks(args[1], resps)
    [] func = "get_task_status" /\ n = 1 -> pbs_get_task_status(args[1], resps)
    [] OTHER -> BadCall

pbs_execute_command(command_arg, args_arg, resps) ==
  LET command == str_strip(str_lower(command_arg))
      args == IF Truthy(args_arg) THEN args_arg ELSE Dict(EmptyKv)
      func == MapGet(pbs_cmd_map, command)
      datastore == DictGet(args, "datastore", EmptyStr)
      backup_type == DictGet(args, "backup_type", EmptyStr)
      backup_id == DictGet(args, "backup_id", EmptyStr)
      job_id == DictGet(args, "job_id", EmptyStr)
      upid == DictGet(args, "upid", EmptyStr)
      bound ==
        IF func = NoFunc
        THEN Refuse("ValueError",
                    Msg("Unknown command '{command}'. Valid: {names}", command, {},
                        pbs_valid_names))
        ELSE IF func \in {"get_node_status", "list_datastores", "list_sync_jobs", "list_verify_jobs"}
        THEN Positional(<<>>)
        ELSE IF func = "list_tasks"
        THEN Positional(<<DictGet(args, "limit", Num(20))>>)
        ELSE IF func \in {"get_datastore_status", "list_datastore_snapshots",
                          "list_backup_groups", "run_garbage_collection"}
        THEN IF ~Truthy(datastore)
             THEN Refuse("ValueError",
                         Msg("{command} requires a 'datastore' argument", command, {"datastore"}, <<>>))
             ELSE IF func = "list_datastore_snapshots"
             THEN Positional(<<datastore, backup_type, backup_id>>)
             ELSE IF func = "list_backup_groups"
             THEN Positional(<<datastore>>)
             ELSE IF func = "run_garbage_collection"
             THEN Positional(<<datastore>>)
             ELSE Positional(<<datastore>>)
        ELSE IF func = "run_prune"
        THEN IF ~Truthy(datastore)
             THEN Refuse("ValueError",
                         Msg("prune requires a 'datastore' argument", <<"p","r","u","n","e">>, {"datastore"}, <<>>))
             ELSE IF ~Truthy(backup_type) \/ ~Truthy(backup_id)
             THEN Refuse("ValueError",
                         Msg("prune requires 'backup_type' and 'backup_id' arguments", <<"p","r","u","n","e">>,
                             {"backup_type", "backup_id"}, <<>>))
             ELSE Positional(<<datastore, backup_type, backup_id,
                       DictGet(args, "keep_last", Num(0)),
                       DictGet(args, "keep_daily", Num(0)),
                       DictGet(args, "keep_weekly", Num(0)),
                       DictGet(args, "keep_monthly", Num(0)),
                       DictGet(args, "keep_yearly", Num(0))>>)
        ELSE IF func \in {"run_sync_job", "run_verify_job"}
        THEN IF ~Truthy(job_id)
             THEN Refuse("ValueError",
                         Msg("{command} requires a 'job_id' argument", command, {"job_id"}, <<>>))
             ELSE Positional(<<job_id>>)
        ELSE IF func = "get_task_status"
        THEN IF ~Truthy(upid)
             THEN Refuse("ValueError",
                         Msg("task_status requires a 'upid' argument", <<"t","a","s","k","_","s","t","a","t","u","s">>, {"upid"}, <<>>))
             ELSE Positional(<<upid>>)
        ELSE Positional(<<>>)
  IN
  IF bound.ok
  THEN Invoke(func, bound.args, pbs_call(func, bound.args, resps))
  ELSE Reject(bound.exc, bound.msg)
(***************************************************************************)
(* WHM / cPanel: API client and operation functions (src/whm/main.py)      *)
(***************************************************************************)
\* v == 0
IsZero(v) == (v.t = "int" /\ v.n = 0) \/ (v.t = "bool" /\ ~v.b)

ShapeError(exc) == Raise(exc, "shape", Msg("raised while reading the response", <<>>, {}, <<>>))

ApiError(d) ==
  Raise("ValueError", "api",
        Msg("WHM API Error: {statusmsg}", <<>>, {}, <<DictGet(d, "statusmsg", Lit("Unknown"))>>))

whm_make_api_request(resp) ==
  LET data == resp.body
      result == DictGet(data, "result", None)
      failed == {i \in DOMAIN IterIfList(result) :
                   /\ IsInstance(result.xs[i], "dict")
                   /\ IsZero(DictGet(result.xs[i], "status", None))}
  IN
  IF resp.t = "fail"
  THEN transport_error(resp.exc, "Cannot reach host", "API failed")
  ELSE IF IsInstance(data, "dict") /\ IsZero(DictGet(data, "status", None))
  THEN ApiError(data)
  ELSE IF data.t \in {"none", "int", "bool"}
  THEN ShapeError("TypeError")                  \* "result" in data
  ELSE IF failed # {}
  THEN ApiError(result.xs[CHOOSE i \in failed : \A j \in failed : i <= j])
  ELSE Return(data)

\* The outcome out of an operation whose request got r.
Then(r, out) == IF r.status = "raise" THEN r ELSE out

RECURSIVE SetToSeq(_)
SetToSeq(S) ==
  IF S = {} THEN <<>>
  ELSE LET x == CHOOSE x \in S : TRUE IN <<x>> \o SetToSeq(S \ {x})

\* for x in v: whether v can be iterated, and the items it gives (a dict its
\* keys, a str its characters).
Iterable(v) == v.t \in {"list", "dict", "str"}
IterItems(v) ==
  CASE v.t = "list" -> v.xs
    [] v.t = "dict" -> [i \in 1..Cardinality(DOMAIN v.kv) |-> Lit(SetToSeq(DOMAIN v.kv)[i])]
    [] v.t = "str" -> [i \in 1..Len(v.s) |-> Str(<<v.s[i]>>)]
    [] OTHER -> <<>>

\* data.get("result", [{}])[0] if data.get("result") else otherwise
first_result(data, otherwise) ==
  LET result == DictGet(data, "result", List(<<Dict(EmptyKv)>>))
  IN  IF ~Truthy(DictGet(data, "result", None)) THEN Return(otherwise)
      ELSE CASE result.t = "list" -> Return(result.xs[1])
             [] result.t = "str" -> Return(Str(<<result.s[1]>>))
             [] result.t = "dict" -> ShapeError("KeyError")
             [] OTHER -> ShapeError("TypeError")

whm_get_server_resources(resps) ==
  LET r1 == whm_make_api_request(resps[1])
      r2 == whm_make_api_request(resps[2])
      load_data == r1.value
      disk_data == r2.value
      avg == DictGet(load_data, "avg", List(<<Num(0), Num(0), Num(0)>>))
      disk == DictGet(disk_data, "partition", List(<<Dict(EmptyKv)>>))
      parts == IterIfList(disk)
      roots == {i \in DOMAIN parts :
                  /\ IsInstance(parts[i], "dict")
                  /\ DictGet(parts[i], "mount", EmptyStr) = Str(<<"/">>)}
      root_part == IF roots = {} THEN Dict(EmptyKv)
                   ELSE parts[CHOOSE i \in roots : \A j \in roots : i <= j]
      load(i) == IF Len(avg.xs) > i THEN avg.xs[i + 1] ELSE Num(0)
      req1 == Req("GET", Path("loadavg", <<>>), None, None)
      req2 == Req("GET", Path("getdiskinfo", <<>>), None, None)
  IN  IF r1.status = "raise" THEN Op(r1, <<req1>>)
      ELSE IF r2.status = "raise" THEN Op(r2, <<req1, req2>>)
      ELSE IF ~IsInstance(load_data, "dict") \/ ~IsInstance(disk_data, "dict")
      THEN Op(ShapeError("AttributeError"), <<req1, req2>>)
      ELSE IF ~IsInstance(avg, "list")
      THEN Op(ShapeError("TypeError"), <<req1, req2>>)
      ELSE Op(Return(
             [cpu |-> [load_1min |-> load(0), load_5min |-> load(1), load_15min |-> load(2),
                       status |-> IF load(0).n < 4 THEN "ok" ELSE "high"],
              disk |-> Pick(root_part, << <<"total", "total", Lit("N/A")>>,
                                          <<"used", "used", Lit("N/A")>>,
                                          <<"available", "available", Lit("N/A")>>,
                                          <<"percent_used", "percentage", Lit("N/A")>> >>)]),
             <<req1, req2>>)

\* The loop of list_accounts, list_domains and get_bandwidth over
\* data.get(key, []): the dict items, or the error the loop raises.
whm_listing(data, key) ==
  LET found == DictGet(data, key, List(<<>>))
  IN  IF ~IsInstance(data, "dict") THEN ShapeError("AttributeError")
      ELSE IF ~Iterable(found) THEN ShapeError("TypeError")
      ELSE Return(OnlyDicts(IterItems(found)))

\* The items a listing found, none when it raised.
Found(found) == IF found.status = "ok" THEN found.value ELSE <<>>

whm_list_accounts(resps) ==
  LET r == whm_make_api_request(resps[1])
      found == whm_listing(r.value, "acct")
      accounts == [i \in DOMAIN Found(found) |->
                    Pick(Found(found)[i], << <<"user", "user", EmptyStr>>,
                                            <<"domain", "domain", EmptyStr>>,
                                            <<"email", "email", EmptyStr>>,
                                            <<"plan", "plan", EmptyStr>>,
                                            <<"suspended", "suspended", False>>,
                                            <<"disk_used", "diskused", Lit("0M")>>,
                                            <<"disk_limit", "disklimit", Lit("unlimited")>> >>)]
  IN  Op(Then(r, Then(found, Return([accounts |-> accounts, total |-> Len(accounts)]))),
         <<Req("GET", Path("listaccts", <<>>), Dict([k \in {"api.version"} |-> Lit("1")]), None)>>)

whm_list_domains(resps) ==
  LET r == whm_make_api_request(resps[1])
      found == whm_listing(r.value, "domain")
      domains == [i \in DOMAIN Found(found) |->
                   Pick(Found(found)[i], << <<"domain", "domain", EmptyStr>>,
                                           <<"document_root", "docroot", EmptyStr>>,
                                           <<"user", "user", EmptyStr>>,
                                           <<"status", "status", Lit("active")>> >>)]
  IN  Op(Then(r, Then(found, Return([domains |-> domains, total |-> Len(domains)]))),
         <<Req("GET", Path("listdomains", <<>>), None, None)>>)

whm_get_disk_usage(account, resps) ==
  LET r == whm_make_api_request(resps[1])
      data == r.value
      first == first_result(data, Dict(EmptyKv))
      result == first.value
      usage == DictGet(result, "diskquota", Num(0))
      limit == DictGet(result, "disklimit", Num(1))
      pct == IF limit.n > 0 THEN Round2(usage.n * 100, limit.n) ELSE 0
  IN  Op(Then(r,
           IF ~IsInstance(data, "dict") THEN ShapeError("AttributeError")
           ELSE IF first.status = "raise" THEN first
           ELSE IF ~IsInstance(result, "dict") THEN ShapeError("AttributeError")
           ELSE Return([account |-> account,
                        disk_usage_bytes |-> usage,
                        disk_usage_mb |-> Round2(usage.n, 1024 * 1024),
                        disk_limit_bytes |-> limit,
                        disk_limit_mb |-> Round2(limit.n, 1024 * 1024),
                        percent_used |-> pct,
                        status |-> IF pct < 80 * 100 THEN "ok"
                                   ELSE IF pct < 90 * 100 THEN "warning" ELSE "critical"])),
         <<Req("GET", Path("getdiskusage", <<>>), Dict([k \in {"user"} |-> account]), None)>>)

\* suspend_account and unsuspend_account: the envelope around the first item
\* of "result", or around the whole body when it has none.
whm_envelope(account, action, r) ==
  LET data == r.value
      first == first_result(data, data)
  IN  Then(r,
        IF ~IsInstance(data, "dict") THEN ShapeError("AttributeError")
        ELSE IF first.status = "raise" THEN first
        ELSE Return([account |-> account, action |-> action, result |-> first.value]))

whm_suspend_account(account, reason, resps) ==
  LET params == Dict([k \in {"user"} |-> account]
                     @@ TruthyParams(<< <<"reason", reason>> >>).kv)
  IN  Op(whm_envelope(account, "suspended", whm_make_api_request(resps[1])),
         <<Req("GET", Path("suspendacct", <<>>), params, None)>>)

whm_unsuspend_account(account, resps) ==
  Op(whm_envelope(account, "unsuspended", whm_make_api_request(resps[1])),
     <<Req("GET", Path("unsuspendacct", <<>>), Dict([k \in {"user"} |-> account]), None)>>)

whm_get_bandwidth(account, resps) ==
  LET params == IF Truthy(account)
                THEN Dict([k \in {"searchtype", "search"} |->
                             IF k = "searchtype" THEN Lit("user") ELSE account])
                ELSE None
      r == whm_make_api_request(resps[1])
      found == whm_listing(r.value, "bandwidth")
      bandwidth_entries ==
        [i \in DOMAIN Found(found) |->
           Pick(Found(found)[i], << <<"account", "acct", EmptyStr>>,
                                   <<"domain", "domain", EmptyStr>>,
                                   <<"bytes_used", "totalbytes", Num(0)>>,
                                   <<"limit", "limit", Lit("unlimited")>> >>)]
  IN  Op(Then(r, Then(found, Return([bandwidth |-> bandwidth_entries,
                                     total_entries |-> Len(bandwidth_entries)]))),
         <<Req("GET", Path("showbw", <<>>), params, None)>>)

whm_get_hostname(resps) ==
  LET r == whm_make_api_request(resps[1])
  IN  Op(Then(r,
           IF ~IsInstance(r.value, "dict") THEN ShapeError("AttributeError")
           ELSE Return([hostname |-> DictGet(r.value, "hostname", Lit("unknown"))])),
         <<Req("GET", Path("gethostname", <<>>), None, None)>>)

allowed_services ==
  {Str(<<"h","t","t","p","d">>), Str(<<"e","x","i","m">>), Str(<<"m","y","s","q","l">>), Str(<<"n","a","m","e","d">>), Str(<<"f","t","p","d">>),
   Str(<<"s","s","h","d">>), Str(<<"c","p","s","r","v","d">>)}

\* sorted(allowed)
allowed_sorted ==
  sorted([i \in 1..Cardinality(allowed_services) |-> SetToSeq(allowed_services)[i].s])

\* A value that can be a member of a set.
Hashable(v) == v.t \notin {"list", "dict"}

\* Fault: restart_service without its allow-list.
whm_restart_service_unchecked(service, resps) ==
  LET r == whm_make_api_request(resps[1])
  IN  Op(Then(r, Return([service |-> service, action |-> "restart", result |-> r.value])),
         <<Req("GET", Path("restartservice", <<>>), Dict([k \in {"service"} |-> service]), None)>>)

whm_restart_service(service, resps) ==
  LET r == whm_make_api_request(resps[1])
  IN
  IF ~Hashable(service)
  THEN Op(Raise("TypeError", "validation", Msg("unhashable type", <<>>, {}, <<>>)), <<>>)
  ELSE IF service \notin allowed_services
  THEN Op(Raise("ValueError", "validation",
                Msg("Service '{service}' not allowed. Valid: {names}", <<>>, {"service"},
                    allowed_sorted)), <<>>)
  ELSE Op(Then(r, Return([service |-> service, action |-> "restart", result |-> r.value])),
          <<Req("GET", Path("restartservice", <<>>), Dict([k \in {"service"} |-> service]), None)>>)

(***************************************************************************)
(* WHM / cPanel: command router (src/whm/main.py)                          *)
(***************************************************************************)
\* Fault: a table that lost every row but two, one of them misrouted.
whm_cmd_map_partial ==
  << <<<<"r","e","s","o","u","r","c","e","s">>, "get_server_resources">>,
     <<<<"h","o","s","t","n","a","m","e">>, "get_server_resources">>,
     <<<<"g","e","t","_","h","o","s","t","n","a","m","e">>, "get_server_resources">> >>

whm_cmd_map ==
  << <<<<"g","e","t","_","s","e","r","v","e","r","_","r","e","s","o","u","r","c","e","s">>, "get_server_resources">>,
     <<<<"r","e","s","o","u","r","c","e","s">>, "get_server_resources">>,
     <<<<"l","i","s","t","_","a","c","c","o","u","n","t","s">>, "list_accounts">>,
     <<<<"a","c","c","o","u","n","t","s">>, "list_accounts">>,
     <<<<"l","i","s","t","_","d","o","m","a","i","n","s">>, "list_domains">>,
     <<<<"d","o","m","a","i","n","s">>, "list_domains">>,
     <<<<"g","e","t","_","d","i","s","k","_","u","s","a","g","e">>, "get_disk_usage">>,
     <<<<"d","i","s","k">>, "get_disk_usage">>,
     <<<<"s","u","s","p","e","n","d","_","a","c","c","o","u","n","t">>, "suspend_account">>,
     <<<<"s","u","s","p","e","n","d">>, "suspend_account">>,
     <<<<"u","n","s","u","s","p","e","n","d","_","a","c","c","o","u","n","t">>, "unsuspend_account">>,
     <<<<"u","n","s","u","s","p","e","n","d">>, "unsuspend_account">>,
     <<<<"g","e","t","_","b","a","n","d","w","i","d","t","h">>, "get_bandwidth">>,
     <<<<"b","a","n","d","w","i","d","t","h">>, "get_bandwidth">>,
     <<<<"g","e","t","_","h","o","s","t","n","a","m","e">>, "get_hostname">>,
     <<<<"h","o","s","t","n","a","m","e">>, "get_hostname">>,
     <<<<"r","e","s","t","a","r","t","_","s","e","r","v","i","c","e">>, "restart_service">>,
     <<<<"r","e","s","t","a","r","t">>, "restart_service">> >>

\* sorted(cmd_map.keys()), the names the unknown-command error lists.
whm_valid_names == sorted(MapKeys(whm_cmd_map))

\* func(*args) for a function object of the module.
whm_call(func, args, resps) ==
  LET n == Len(args) IN
  CASE func = "get_server_resources" /\ n = 0 -> whm_get_server_resources(resps)
    [] func = "list_accounts" /\ n = 0 -> whm_list_accounts(resps)
    [] func = "list_domains" /\ n = 0 -> whm_list_domains(resps)
    [] func = "get_disk_usage" /\ n = 1 -> whm_get_disk_usage(args[1], resps)
    [] func = "suspend_account" /\ n = 1 -> whm_suspend_account(args[1], EmptyStr, resps)
    [] func = "suspend_account" /\ n = 2 -> whm_suspend_account(args[1], args[2], resps)
    [] func = "unsuspend_account" /\ n = 1 -> whm_unsuspend_account(args[1], resps)
    [] func = "get_bandwidth" /\ n = 0 -> whm_get_bandwidth(EmptyStr, resps)
    [] func = "get_bandwidth" /\ n = 1 -> whm_get_bandwidth(args[1], resps)
    [] func = "get_hostname" /\ n = 0 -> whm_get_hostname(resps)
    [] func = "restart_service" /\ n = 1 -> whm_restart_service(args[1], resps)
    [] OTHER -> BadCall

\* Fault: the argument is only required to be present.
whm_lacks_string_lenient(args, key) == ~Truthy(args) \/ ~DictHas(args, key)

\* not args or key not in args or not isinstance(args[key], str)
\* or not args[key].strip()
whm_lacks_string(args, key) ==
  \/ ~Truthy(args)
  \/ ~DictHas(args, key)
  \/ ~IsInstance(args.kv[key], "str")
  \/ ~Truthy(Str(str_strip(args.kv[key].s)))

whm_execute_command(command_arg, args, resps) ==
  LET command == str_strip(str_lower(command_arg))
      func == MapGet(whm_cmd_map, command)
      bound ==
        IF func = NoFunc
        THEN Refuse("ValueError",
                    Msg("Unknown command '{command}'. Valid: {names}", command, {},
                        whm_valid_names))
        ELSE IF func \in {"get_disk_usage", "suspend_account", "unsuspend_account"}
        THEN IF whm_lacks_string(args, "account")
             THEN Refuse("ValueError",
                         Msg("{command} requires a non-empty 'account' string", command,
                             {"account"}, <<>>))
             ELSE IF func = "suspend_account"
             THEN Positional(<<args.kv["account"], DictGet(args, "reason", EmptyStr)>>)
             ELSE Positional(<<args.kv["account"]>>)
        ELSE IF func = "get_bandwidth"
        THEN Positional(<<IF Truthy(args) THEN DictGet(args, "account", EmptyStr) ELSE EmptyStr>>)
        ELSE IF func = "restart_service"
        THEN IF whm_lacks_string(args, "service")
             THEN Refuse("ValueError",
                         Msg("restart_service requires a non-empty 'service' string",
                             <<"r","e","s","t","a","r","t","_","s","e","r","v","i","c","e">>, {"service"}, <<>>))
             ELSE Positional(<<args.kv["service"]>>)
        ELSE Positional(<<>>)
  IN
  IF bound.ok
  THEN Invoke(func, bound.args, whm_call(func, bound.args, resps))
  ELSE Reject(bound.exc, bound.msg)
(***************************************************************************)
(* The voice flows: run and _classify_intent of the three capabilities     *)
(***************************************************************************)
\* One call the flow made, in order: a method of capability_worker
\* (speak, user_response, text_to_text_response, run_io_loop,
\* run_confirmation_loop, resume_normal_flow) with its text, or an
\* operation function with its name.
Event(kind, text) == [kind |-> kind, text |-> text]

\* One `if action == ...` branch of run: the identifiers it asks for when the
\* intent has none (<<key, question>>), the identifiers it passes on as they
\* are, whether the last identifier goes through int(), the confirmation
\* question ("" when it asks for none), the operation function, and the
\* sentence spoken after it ("" when the LLM summarises the data).
Branch(action, asks, gives, int, confirm, func, done) ==
  [action |-> action, asks |-> asks, gives |-> gives, int |-> int,
   confirm |-> confirm, func |-> func, done |-> done]

pve_run ==
  [greeting |-> "I can help manage your Proxmox environment. ... What would you like?",
   apology |-> "Sorry, something went wrong with the Proxmox request. Please check your server connection and try again.",
   branches |->
     << Branch("list_nodes", <<>>, <<>>, FALSE, "", "list_nodes", ""),
        Branch("node_status", << <<"node", "Which node should I check?">> >>, <<>>, FALSE, "",
               "get_node_status", ""),
        Branch("list_vms", << <<"node", "Which node should I list VMs for?">> >>, <<>>, FALSE,
               "", "list_vms", ""),
        Branch("list_containers", << <<"node", "Which node should I list containers for?">> >>,
               <<>>, FALSE, "", "list_containers", ""),
        Branch("start_vm",
               << <<"node", "Which node is the VM on?">>, <<"vmid", "What is the VM ID?">> >>,
               <<>>, TRUE, "Are you sure you want to start VM {vmid} on {node}?",
               "start_vm", "VM {vmid} start command sent successfully."),
        Branch("stop_vm",
               << <<"node", "Which node is the VM on?">>, <<"vmid", "What is the VM ID?">> >>,
               <<>>, TRUE, "Are you sure you want to stop VM {vmid} on {node}?",
               "stop_vm", "VM {vmid} stop command sent successfully."),
        Branch("reboot_vm",
               << <<"node", "Which node is the VM on?">>, <<"vmid", "What is the VM ID?">> >>,
               <<>>, TRUE, "Are you sure you want to reboot VM {vmid} on {node}?",
               "reboot_vm", "VM {vmid} reboot command sent successfully."),
        Branch("shutdown_vm",
               << <<"node", "Which node is the VM on?">>, <<"vmid", "What is the VM ID?">> >>,
               <<>>, TRUE, "Are you sure you want to shutdown VM {vmid} on {node}?",
               "shutdown_vm", "VM {vmid} shutdown command sent successfully."),
        Branch("start_container",
               << <<"node", "Which node is the container on?">>,
                  <<"vmid", "What is the container ID?">> >>,
               <<>>, TRUE, "Are you sure you want to start container {vmid} on {node}?",
               "start_container", "Container {vmid} start command sent successfully."),
        Branch("stop_container",
               << <<"node", "Which node is the container on?">>,
                  <<"vmid", "What is the container ID?">> >>,
               <<>>, TRUE, "Are you sure you want to stop container {vmid} on {node}?",
               "stop_container", "Container {vmid} stop command sent successfully."),
        Branch("reboot_container",
               << <<"node", "Which node is the container on?">>,
                  <<"vmid", "What is the container ID?">> >>,
               <<>>, TRUE, "Are you sure you want to reboot container {vmid} on {node}?",
               "reboot_container", "Container {vmid} reboot command sent successfully."),
        Branch("storage", << <<"node", "Which node should I check storage for?">> >>, <<>>,
               FALSE, "", "list_storage", ""),
        Branch("cluster", <<>>, <<>>, FALSE, "", "get_cluster_status", ""),
        Branch("tasks", << <<"node", "Which node should I list tasks for?">> >>, <<>>, FALSE,
               "", "list_tasks", "") >>]

pbs_run ==
  [greeting |-> "I can help manage your Proxmox Backup Server. ... What would you like?",
   apology |-> "Sorry, something went wrong with the Proxmox Backup Server request. Please check your connection and try again.",
   branches |->
     << Branch("node_status", <<>>, <<>>, FALSE, "", "get_node_status", ""),
        Branch("datastores", <<>>, <<>>, FALSE, "", "list_datastores", ""),
        Branch("datastore_status", << <<"datastore", "Which datastore should I check?">> >>,
               <<>>, FALSE, "", "get_datastore_status", ""),
        Branch("snapshots", << <<"datastore", "Which datastore should I list snapshots for?">> >>,
               <<>>, FALSE, "", "list_datastore_snapshots", ""),
        Branch("backup_groups",
               << <<"datastore", "Which datastore should I list backup groups for?">> >>,
               <<>>, FALSE, "", "list_backup_groups", ""),
        Branch("sync_jobs", <<>>, <<>>, FALSE, "", "list_sync_jobs", ""),
        Branch("run_sync", << <<"job_id", "Which sync job ID should I run?">> >>, <<>>, FALSE,
               "Are you sure you want to run sync job {job_id}?",
               "run_sync_job", "Sync job {job_id} has been started."),
        Branch("verify_jobs", <<>>, <<>>, FALSE, "", "list_verify_jobs", ""),
        Branch("run_verify", << <<"job_id", "Which verify job ID should I run?">> >>, <<>>,
               FALSE, "Are you sure you want to run verify job {job_id}?",
               "run_verify_job", "Verify job {job_id} has been started."),
        Branch("gc", << <<"datastore", "Which datastore should I run garbage collection on?">> >>,
               <<>>, FALSE, "Run garbage collection on datastore {datastore}?",
               "run_garbage_collection", "Garbage collection started on {datastore}."),
        Branch("tasks", <<>>, <<>>, FALSE, "", "list_tasks", "") >>]

whm_run ==
  [greeting |-> "I can help with your WHM server. ... What would you like?",
   apology |-> "Sorry, something went wrong with the WHM request. Please check your server connection and try again.",
   branches |->
     << Branch("resources", <<>>, <<>>, FALSE, "", "get_server_resources", ""),
        Branch("accounts", <<>>, <<>>, FALSE, "", "list_accounts", ""),
        Branch("domains", <<>>, <<>>, FALSE, "", "list_domains", ""),
        Branch("disk", << <<"account", "Which account should I check disk usage for?">> >>,
               <<>>, FALSE, "", "get_disk_usage", ""),
        Branch("bandwidth", <<>>, <<"account">>, FALSE, "", "get_bandwidth", ""),
        Branch("suspend", << <<"account", "Which account should I suspend?">> >>, <<>>, FALSE,
               "Are you sure you want to suspend {account}?",
               "suspend_account", "Account {account} has been suspended."),
        Branch("unsuspend", << <<"account", "Which account should I unsuspend?">> >>, <<>>,
               FALSE, "", "unsuspend_account", "Account {account} has been unsuspended."),
        Branch("hostname", <<>>, <<>>, FALSE, "", "get_hostname",
               "The server hostname is {hostname}."),
        Branch("restart",
               << <<"service",
                    "Which service? Options: httpd, exim, mysql, named, ftpd, sshd, cpsrvd.">> >>,
               <<>>, FALSE, "Are you sure you want to restart {service}?",
               "restart_service", "The {service} service has been restarted.") >>]

\* The identifier keys of a capability's intent.
IntentKeys(sys) ==
  CASE sys = "pve" -> {"node", "vmid"}
    [] sys = "pbs" -> {"datastore", "job_id"}
    [] OTHER -> {"account", "service"}

\* Fault: a reply that is no JSON is not caught.
classify_intent_uncaught(sys, raw) ==
  IF raw.t # "str" THEN [exc |-> "AttributeError", value |-> None]
  ELSE LET clean == SelectSeq(raw.s, LAMBDA tok : tok.t \notin {"fence_json", "fence", "space"})
       IN  IF Len(clean) = 1 /\ clean[1].t = "json"
           THEN [exc |-> "", value |-> clean[1].v]
           ELSE [exc |-> "JSONDecodeError", value |-> None]

\* _classify_intent, from the LLM's reply on: the reply is a str of tokens (a
\* ```json fence, a ``` fence, whitespace, the text of one JSON value, other
\* text).  replace() takes the fences out, strip() the whitespace around the
\* rest, and json.loads gives the value when the rest is one JSON value;
\* otherwise the except clause gives the unknown intent.
classify_intent(sys, raw) ==
  IF raw.t # "str" THEN [exc |-> "AttributeError", value |-> None]
  ELSE LET unfenced == SelectSeq(raw.s, LAMBDA tok : tok.t \notin {"fence_json", "fence"})
           RECURSIVE lstrip(_)
           lstrip(s) == IF s # <<>> /\ Head(s).t = "space" THEN lstrip(Tail(s)) ELSE s
           RECURSIVE rstrip(_)
           rstrip(s) == IF s # <<>> /\ s[Len(s)].t = "space"
                        THEN rstrip(SubSeq(s, 1, Len(s) - 1)) ELSE s
           clean == rstrip(lstrip(unfenced))
       IN  IF Len(clean) = 1 /\ clean[1].t = "json"
           THEN [exc |-> "", value |-> clean[1].v]
           ELSE [exc |-> "",
                 value |-> Dict([k \in {"action"} \cup IntentKeys(sys) |->
                                   IF k = "action" THEN Lit("unknown") ELSE EmptyStr])]

\* run of a capability.  The turn gives what the environment does: the LLM's
\* reply to the classification (reply), the user's answers to run_io_loop
\* (answers, by identifier), the answer to run_confirmation_loop (confirmed),
\* the number of the call of capability_worker that raises (fails, 0 for
\* none), whether speaking the apology raises too (mute), and the backend's
\* responses (resps).  The result is the calls made in order (said), the
\* exception the except clause caught (caught), the operation functions
\* called, the requests sent and the exception that left run (out).
run(sys, turn) ==
  LET flow == CASE sys = "pve" -> pve_run [] sys = "pbs" -> pbs_run [] OTHER -> whm_run
      \* st after an awaited or plain call of capability_worker
      Do(st, kind, text) ==
        IF st.exc # "" THEN st
        ELSE IF st.n + 1 = turn.fails
        THEN [st EXCEPT !.n = @ + 1, !.exc = "RuntimeError"]
        ELSE [st EXCEPT !.n = @ + 1, !.said = Append(@, Event(kind, text))]
      \* st after a statement that raises exc when bad
      Check(st, bad, exc) == IF st.exc = "" /\ bad THEN [st EXCEPT !.exc = exc] ELSE st
      \* except Exception: speak the apology; then resume_normal_flow()
      Handle(body, calls, reqs) ==
        [said |-> IF body.exc # "" /\ turn.mute THEN body.said
                  ELSE Append(IF body.exc = "" THEN body.said
                              ELSE Append(body.said, Event("speak", flow.apology)),
                              Event("resume_normal_flow", "")),
         caught |-> body.exc,
         calls |-> calls,
         reqs |-> reqs,
         out |-> IF body.exc # "" /\ turn.mute
                 THEN Raise("RuntimeError", "voice", Msg("speak failed", <<>>, {}, <<>>))
                 ELSE Return(None)]
      \* what the branch says after the operation
      Answer(called, branch, declined, calls, reqs) ==
        Handle(IF declined THEN Do(called, "speak", "Okay, no changes made.")
               ELSE IF branch.done # "" THEN Do(called, "speak", branch.done)
               ELSE Do(Do(called, "text_to_text_response", "summarize"), "speak", "summary"),
               calls, reqs)
      \* the operation function, called unless a step before it raised or the
      \* user declined
      Operate(confirming, branch, args, declined, op) ==
        Answer(IF confirming.exc # "" \/ declined THEN confirming
               ELSE Check([confirming EXCEPT !.said = Append(@, Event("operation", branch.func))],
                          op.out.status = "raise", op.out.exc),
               branch, declined,
               IF confirming.exc # "" \/ declined THEN <<>>
               ELSE <<[func |-> branch.func, args |-> args]>>,
               IF confirming.exc # "" \/ declined THEN <<>> ELSE op.reqs)
      \* the call of the operation function with the prepared arguments
      Dispatch(pre) ==
        IF pre.routed
        THEN Operate(pre.st, pre.branch, pre.args, pre.declined,
                     CASE sys = "pve" -> pve_call(pre.branch.func, pre.args, turn.resps)
                       [] sys = "pbs" -> pbs_call(pre.branch.func, pre.args, turn.resps)
                       [] OTHER -> whm_call(pre.branch.func, pre.args, turn.resps))
        ELSE Handle(pre.st, <<>>, <<>>)
      \* run_confirmation_loop of the branches that have one
      Confirm(converted, branch, args) ==
        [st |-> IF branch.confirm = "" THEN converted
                ELSE Do(converted, "run_confirmation_loop", branch.confirm),
         branch |-> branch,
         args |-> IF converted.exc = "" THEN args ELSE <<>>,
         declined |-> branch.confirm # "" /\ ~turn.confirmed,
         routed |-> TRUE]
      \* int() of the last identifier, and the arguments of the operation
      Convert(stripped, branch, intent, ids, number) ==
        Confirm(Check(stripped, branch.int /\ ~number.ok, number.exc), branch,
                [i \in 1..(Len(branch.asks) + Len(branch.gives)) |->
                   IF i > Len(branch.asks)
                   THEN DictGet(intent, branch.gives[i - Len(branch.asks)], EmptyStr)
                   ELSE IF branch.int /\ i = Len(branch.asks) THEN Num(number.n)
                   ELSE Str(str_strip(ids[i].s))])
      \* x.strip() of every identifier
      Strip(answered, branch, intent, ids) ==
        Convert(Check(answered, \E i \in DOMAIN ids : ids[i].t # "str", "AttributeError"),
                branch, intent, ids, py_int(Str(str_strip(ids[Len(ids)].s))))
      \* the identifier of ask i: the intent's, or the user's answer
      Given(intent, branch, i) == DictGet(intent, branch.asks[i][1], EmptyStr)
      Ask(st, intent, branch, i) ==
        IF i > Len(branch.asks) \/ Truthy(Given(intent, branch, i)) THEN st
        ELSE Do(st, "run_io_loop", branch.asks[i][2])
      Asked(classified, branch, intent) ==
        Strip(Ask(Ask(classified, intent, branch, 1), intent, branch, 2), branch, intent,
              [i \in DOMAIN branch.asks |->
                 IF Truthy(Given(intent, branch, i)) THEN Given(intent, branch, i)
                 ELSE turn.answers[branch.asks[i][1]]])
      \* the if/elif chain on action, its else branch giving a suggestion
      Route(classified, intent, known) ==
        IF classified.exc = "" /\ known # {}
        THEN Asked(classified, flow.branches[CHOOSE i \in known : TRUE], intent)
        ELSE [st |-> IF classified.exc # "" THEN classified
                     ELSE Do(Do(classified, "text_to_text_response", "suggest"),
                             "speak", "suggestion"),
              branch |-> flow.branches[1],
              args |-> <<>>,
              declined |-> FALSE,
              routed |-> FALSE]
      \* intent = self._classify_intent(user_input); action = intent.get("action")
      Classify(replied, parsed) ==
        Route(Check(Check(replied, parsed.exc # "", parsed.exc),
                    parsed.value.t # "dict", "AttributeError"),
              parsed.value,
              {i \in DOMAIN flow.branches :
                 Lit(flow.branches[i].action) = DictGet(parsed.value, "action", Lit("unknown"))})
  IN  Dispatch(Classify(Do(Do(Do([said |-> <<>>, n |-> 0, exc |-> ""], "speak", flow.greeting),
                              "user_response", ""),
                           "text_to_text_response", "classify"),
                        classify_intent(sys, turn.reply)))
(***************************************************************************)
(* initialize(): the commands each module advertises                       *)
(***************************************************************************)
\* One entry of "commands", "name / alias → needs {keys}": the names before
\* the arrow, the word after it ("needs", "optional", or "" for a plain
\* description) and the keys of the dict it shows.
Advert(names, word, keys) == [names |-> names, word |-> word, keys |-> keys]

\* Fault: the list of commands is out of date: vms is missing and list_nodes
\* is said to need a node.
pve_initialize_stale ==
  << Advert({<<"l","i","s","t","_","n","o","d","e","s">>, <<"n","o","d","e","s">>}, "needs", {"node"}),
     Advert({<<"g","e","t","_","n","o","d","e","_","s","t","a","t","u","s">>, <<"n","o","d","e","_","s","t","a","t","u","s">>}, "needs", {"node"}),
     Advert({<<"l","i","s","t","_","v","m","s">>}, "needs", {"node"}) >>

pve_initialize ==
  << Advert({<<"l","i","s","t","_","n","o","d","e","s">>, <<"n","o","d","e","s">>}, "", {}),
     Advert({<<"g","e","t","_","n","o","d","e","_","s","t","a","t","u","s">>, <<"n","o","d","e","_","s","t","a","t","u","s">>}, "needs", {"node"}),
     Advert({<<"l","i","s","t","_","v","m","s">>, <<"v","m","s">>}, "needs", {"node"}),
     Advert({<<"g","e","t","_","v","m","_","s","t","a","t","u","s">>, <<"v","m","_","s","t","a","t","u","s">>}, "needs", {"node", "vmid"}),
     Advert({<<"s","t","a","r","t","_","v","m">>}, "needs", {"node", "vmid"}),
     Advert({<<"s","t","o","p","_","v","m">>}, "needs", {"node", "vmid"}),
     Advert({<<"r","e","b","o","o","t","_","v","m">>}, "needs", {"node", "vmid"}),
     Advert({<<"s","h","u","t","d","o","w","n","_","v","m">>}, "needs", {"node", "vmid"}),
     Advert({<<"l","i","s","t","_","c","o","n","t","a","i","n","e","r","s">>, <<"c","o","n","t","a","i","n","e","r","s">>}, "needs", {"node"}),
     Advert({<<"s","t","a","r","t","_","c","o","n","t","a","i","n","e","r">>}, "needs", {"node", "vmid"}),
     Advert({<<"s","t","o","p","_","c","o","n","t","a","i","n","e","r">>}, "needs", {"node", "vmid"}),
     Advert({<<"r","e","b","o","o","t","_","c","o","n","t","a","i","n","e","r">>}, "needs", {"node", "vmid"}),
     Advert({<<"l","i","s","t","_","s","t","o","r","a","g","e">>, <<"s","t","o","r","a","g","e">>}, "needs", {"node"}),
     Advert({<<"g","e","t","_","c","l","u","s","t","e","r","_","s","t","a","t","u","s">>, <<"c","l","u","s","t","e","r">>}, "", {}),
     Advert({<<"l","i","s","t","_","c","l","u","s","t","e","r","_","r","e","s","o","u","r","c","e","s">>, <<"c","l","u","s","t","e","r","_","r","e","s","o","u","r","c","e","s">>}, "optional", {"type"}),
     Advert({<<"l","i","s","t","_","t","a","s","k","s">>, <<"t","a","s","k","s">>}, "needs", {"node"}) >>

pbs_initialize ==
  << Advert({<<"g","e","t","_","n","o","d","e","_","s","t","a","t","u","s">>, <<"n","o","d","e","_","s","t","a","t","u","s">>}, "", {}),
     Advert({<<"l","i","s","t","_","d","a","t","a","s","t","o","r","e","s">>, <<"d","a","t","a","s","t","o","r","e","s">>}, "", {}),
     Advert({<<"g","e","t","_","d","a","t","a","s","t","o","r","e","_","s","t","a","t","u","s">>, <<"d","a","t","a","s","t","o","r","e","_","s","t","a","t","u","s">>}, "needs", {"datastore"}),
     Advert({<<"l","i","s","t","_","s","n","a","p","s","h","o","t","s">>, <<"s","n","a","p","s","h","o","t","s">>}, "needs", {"datastore"}),
     Advert({<<"l","i","s","t","_","b","a","c","k","u","p","_","g","r","o","u","p","s">>, <<"b","a","c","k","u","p","_","g","r","o","u","p","s">>}, "needs", {"datastore"}),
     Advert({<<"l","i","s","t","_","s","y","n","c","_","j","o","b","s">>, <<"s","y","n","c","_","j","o","b","s">>}, "", {}),
     Advert({<<"r","u","n","_","s","y","n","c","_","j","o","b">>}, "needs", {"job_id"}),
     Advert({<<"l","i","s","t","_","v","e","r","i","f","y","_","j","o","b","s">>, <<"v","e","r","i","f","y","_","j","o","b","s">>}, "", {}),
     Advert({<<"r","u","n","_","v","e","r","i","f","y","_","j","o","b">>}, "needs", {"job_id"}),
     Advert({<<"r","u","n","_","g","c">>, <<"g","c">>}, "needs", {"datastore"}),
     Advert({<<"r","u","n","_","p","r","u","n","e">>, <<"p","r","u","n","e">>}, "needs", {"datastore", "backup_type", "backup_id"}),
     Advert({<<"l","i","s","t","_","t","a","s","k","s">>, <<"t","a","s","k","s">>}, "", {}),
     Advert({<<"g","e","t","_","t","a","s","k","_","s","t","a","t","u","s">>, <<"t","a","s","k","_","s","t","a","t","u","s">>}, "needs", {"upid"}) >>

whm_initialize ==
  << Advert({<<"g","e","t","_","s","e","r","v","e","r","_","r","e","s","o","u","r","c","e","s">>, <<"r","e","s","o","u","r","c","e","s">>}, "", {}),
     Advert({<<"l","i","s","t","_","a","c","c","o","u","n","t","s">>, <<"a","c","c","o","u","n","t","s">>}, "", {}),
     Advert({<<"l","i","s","t","_","d","o","m","a","i","n","s">>, <<"d","o","m","a","i","n","s">>}, "", {}),
     Advert({<<"g","e","t","_","d","i","s","k","_","u","s","a","g","e">>, <<"d","i","s","k">>}, "needs", {"account"}),
     Advert({<<"s","u","s","p","e","n","d","_","a","c","c","o","u","n","t">>, <<"s","u","s","p","e","n","d">>}, "needs", {"account"}),
     Advert({<<"u","n","s","u","s","p","e","n","d","_","a","c","c","o","u","n","t">>, <<"u","n","s","u","s","p","e","n","d">>}, "needs", {"account"}),
     Advert({<<"g","e","t","_","b","a","n","d","w","i","d","t","h">>, <<"b","a","n","d","w","i","d","t","h">>}, "optional", {"account"}),
     Advert({<<"g","e","t","_","h","o","s","t","n","a","m","e">>, <<"h","o","s","t","n","a","m","e">>}, "", {}),
     Advert({<<"r","e","s","t","a","r","t","_","s","e","r","v","i","c","e">>, <<"r","e","s","t","a","r","t">>}, "needs", {"service"}) >>
(***************************************************************************)
(* The callers' inputs and the backend's responses                         *)
(***************************************************************************)
\* Ways a caller may write the command name: as is, in upper case, with its
\* first letter capitalised, and each of these inside whitespace.
Spellings(name) ==
  LET upper_char(c) ==
        IF \E i \in DOMAIN LowerChars : LowerChars[i] = c
        THEN UpperChars[CHOOSE i \in DOMAIN LowerChars : LowerChars[i] = c]
        ELSE c
      ToUpper(s) == [i \in 1..Len(s) |-> upper_char(s[i])]
      cased == {name, ToUpper(name), <<upper_char(Head(name))>> \o Tail(name)}
  IN  cased \cup {<<" ">> \o s \o <<"\t", " ">> : s \in cased}

\* Command strings that name no operation.
UnknownCommands == {<<"f","r","o","b","n","i","c","a","t","e">>, <<>>, <<"l","i","s","t"," ","v","m","s">>, <<"s","t","a","r","t","-","v","m">>}

\* The command inputs of a dispatcher: <<text, name>>, name being the routing
\* table's key the text is a spelling of (<<>> when it is of none).
CommandInputs(cmd_map) ==
  UNION {{<<s, cmd_map[i][1]>> : s \in Spellings(cmd_map[i][1])} : i \in DOMAIN cmd_map}

Absent == [t |-> "absent"]

\* The dict of the keys of f that are given a value.
Bag(f) == Dict([k \in {k \in DOMAIN f : f[k] # Absent} |-> f[k]])

\* Dicts with any of the numeric keys k1, k2.
NumDicts(k1, k2) ==
  LET Nums == {Num(n) : n \in 0..MaxNum}
  IN  {Dict(f) : f \in UNION {[S -> Nums] : S \in SUBSET {k1, k2}}}

NonDictItems == {Str(<<"x">>), None, Num(1), List(<<>>)}

RECURSIVE SeqsUpTo(_, _)
SeqsUpTo(S, n) ==
  IF n = 0 THEN {<<>>}
  ELSE LET shorter == SeqsUpTo(S, n - 1)
       IN  shorter \cup {Append(s, x) : s \in {q \in shorter : Len(q) = n - 1}, x \in S}

\* The payloads a list endpoint may answer with: lists of items, of which
\* `full` are tried one at a time and in pairs around a null, and `sample`
\* in every combination, and values that are no list.
ListPayloads(full, sample) ==
  {List(xs) : xs \in SeqsUpTo(sample, MaxList)}
    \cup {List(<<x>>) : x \in full}
    \cup {List(<<x, None, y>>) : x \in full, y \in full}
    \cup {Dict(EmptyKv), None, Num(1), Str(<<"x">>)}

SampleItems == {Dict(EmptyKv), Str(<<"x">>), None}

\* The JSON bodies that carry a payload under "data", and one without it.
DataBodies(payloads) ==
  {Dict([k \in {"data"} |-> p]) : p \in payloads} \cup {Dict(EmptyKv)}

\* One response per request: every transport failure, and every body.
Responses(bodies) ==
  {<<Failure(e)>> : e \in TransportExceptions} \cup {<<Http(b)>> : b \in bodies}

\* The responses the dispatchers are run against: one per request the
\* operation sends.
FewResponses ==
  {<<Failure("ConnectionError")>>,
   <<Http(Dict([k \in {"data"} |-> List(<<Dict(EmptyKv)>>)]))>>,
   <<Http(Dict([k \in {"data"} |-> Str(<<"U","P","I","D",":","p","v","e","1",":","0","0","0","1">>)]))>>}

Pairs(first, second) == {r1 \o r2 : r1 \in first, r2 \in second}

(* Proxmox VE *)
node_pve1 == Str(<<"p","v","e","1">>)

PveVmidFuncs ==
  {"get_vm_status", "start_vm", "stop_vm", "reboot_vm", "shutdown_vm",
   "start_container", "stop_container", "reboot_container"}

\* The argument bags execute_command is tried with for a command of func.
PveBags(func) ==
  LET PveVmids == {Absent, None, Str(<<"1","0","0">>), Str(<<"a","b","c">>), Str(<<" ","7"," ">>), Str(<<>>),
                   Num(100), Num(0), List(<<>>)}
  IN
  {None} \cup
  {Bag([node |-> n, vmid |-> v, type |-> ty, limit |-> l]) :
     n \in {Absent, EmptyStr, node_pve1},
     v \in IF func \in PveVmidFuncs THEN PveVmids ELSE {Absent, Str(<<"1","0","0">>)},
     ty \in IF func = "list_cluster_resources" THEN {Absent, Str(<<"v","m">>)} ELSE {Absent},
     l \in IF func = "list_tasks" THEN {Absent, Num(5)} ELSE {Absent}}

\* The payloads each operation's endpoint is tried with.
PvePayloads(func) ==
  CASE func = "list_nodes" -> ListPayloads(NumDicts("mem", "maxmem"), SampleItems)
    [] func = "list_storage" -> ListPayloads(NumDicts("used", "total"), SampleItems)
    [] func \in {"list_vms", "list_containers", "get_cluster_status",
                 "list_cluster_resources", "list_tasks"} ->
         ListPayloads(NonDictItems, SampleItems)
    [] func = "get_node_status" ->
         {Dict([k \in {"memory"} |-> m]) : m \in NumDicts("used", "total")}
           \cup {Dict([k \in {"rootfs"} |-> m]) : m \in NumDicts("used", "total")}
           \cup {None, List(<<>>)}
    [] OTHER -> {Dict(EmptyKv), None, Str(<<"U","P","I","D",":","p","v","e","1",":","0","0","0","1">>)}

\* The positional arguments an operation function is called with directly.
PveArgs(func) ==
  CASE func \in {"list_nodes", "get_cluster_status"} -> {<<>>}
    [] func = "list_cluster_resources" -> {<<>>, <<Str(<<"v","m">>)>>}
    [] func = "list_tasks" -> {<<node_pve1>>, <<node_pve1, Num(5)>>}
    [] func \in PveVmidFuncs -> {<<node_pve1, Num(100)>>}
    [] OTHER -> {<<node_pve1>>}

(* Proxmox Backup Server *)
store_ds1 == Str(<<"d","s","1">>)

PbsBags(func) ==
  {None} \cup
  {Bag([datastore |-> d, backup_type |-> bt, backup_id |-> bi, keep_last |-> kl,
        keep_daily |-> kd, keep_yearly |-> ky, job_id |-> j, upid |-> u, limit |-> l]) :
     d \in IF func \in {"get_datastore_status", "list_datastore_snapshots",
                        "list_backup_groups", "run_garbage_collection", "run_prune"}
           THEN {Absent, EmptyStr, store_ds1} ELSE {Absent},
     bt \in IF func = "run_prune" THEN {Absent, EmptyStr, Str(<<"v","m">>)}
            ELSE IF func = "list_datastore_snapshots" THEN {Absent, Str(<<"v","m">>)}
            ELSE {Absent},
     bi \in IF func \in {"run_prune", "list_datastore_snapshots"}
            THEN {Absent, Str(<<"1","0","0">>)} ELSE {Absent},
     kl \in IF func = "run_prune" THEN {Absent, Num(0), Num(2), Str(<<"x">>)} ELSE {Absent},
     kd \in IF func = "run_prune" THEN {Absent, Num(7)} ELSE {Absent},
     ky \in IF func = "run_prune" THEN {Absent, Num(0)} ELSE {Absent},
     j \in IF func \in {"run_sync_job", "run_verify_job"}
           THEN {Absent, EmptyStr, Str(<<"j","o","b","1">>)} ELSE {Absent},
     u \in IF func = "get_task_status"
           THEN {Absent, EmptyStr, Str(<<"U","P","I","D",":","p","b","s",":","0","0","0","1">>)} ELSE {Absent},
     l \in IF func = "list_tasks" THEN {Absent, Num(5)} ELSE {Absent}}

\* The responses execute_command is run against for a command of func.
PbsFewResponses(func) ==
  IF func = "get_datastore_status" THEN Pairs(FewResponses, FewResponses) ELSE FewResponses

PbsPayloads(func) ==
  CASE func \in {"list_datastores", "list_datastore_snapshots", "list_backup_groups",
                 "list_sync_jobs", "list_verify_jobs", "list_tasks"} ->
         ListPayloads(NonDictItems, SampleItems)
    [] func = "get_node_status" ->
         {Dict([k \in {"memory"} |-> m]) : m \in NumDicts("used", "total")}
           \cup {Dict([k \in {"root"} |-> m]) : m \in NumDicts("used", "total")}
           \cup {None, List(<<>>)}
    [] OTHER -> {Dict(EmptyKv), None, Str(<<"U","P","I","D",":","p","b","s",":","0","0","0","1">>)}

\* The responses an operation is run against; the items of a usage listing
\* are a store name with any of used and total.
PbsResponses(func) ==
  LET store_ds2 == Str(<<"d","s","2">>)
      UsageItems ==
        {Dict([k \in {"store"} |-> s] @@ d.kv) :
           s \in {store_ds1, store_ds2}, d \in NumDicts("used", "total")}
      UsageSamples ==
        {Dict([k \in {"store", "used"} |-> IF k = "store" THEN store_ds1 ELSE Num(MaxNum)]),
         Dict([k \in {"store", "used"} |-> IF k = "store" THEN store_ds2 ELSE Num(1)]),
         Dict([k \in {"store", "total"} |-> IF k = "store" THEN store_ds1 ELSE Num(MaxNum)]),
         Dict([k \in {"used"} |-> Num(2)]),
         None}
  IN
  IF func = "get_datastore_status"
  THEN Pairs({<<Failure("ReadTimeout")>>} \cup
             {<<Http(b)>> : b \in DataBodies({Dict([k \in {"path"} |-> Str(<<"/","m","n","t","/","d","s","1">>)]), None})},
             Responses(DataBodies(ListPayloads({d \in UsageSamples : d # None}, UsageSamples)
                                    \cup {List(<<x>>) : x \in UsageItems}
                                    \cup UsageItems)))
  ELSE Responses(DataBodies(PbsPayloads(func)))

PbsArgs(func) ==
  CASE func \in {"get_node_status", "list_datastores", "list_sync_jobs",
                 "list_verify_jobs"} -> {<<>>}
    [] func = "list_tasks" -> {<<>>, <<Num(5)>>}
    [] func \in {"run_sync_job", "run_verify_job"} -> {<<Str(<<"j","o","b","1">>)>>}
    [] func = "get_task_status" -> {<<Str(<<"U","P","I","D",":","p","b","s",":","0","0","0","1">>)>>}
    [] func = "list_datastore_snapshots" ->
         {<<store_ds1>>, <<store_ds1, Str(<<"v","m">>)>>, <<store_ds1, Str(<<"v","m">>), Str(<<"1","0","0">>)>>}
    [] func = "run_prune" ->
         {<<store_ds1, Str(<<"v","m">>), Str(<<"1","0","0">>)>>,
          <<store_ds1, Str(<<"v","m">>), Str(<<"1","0","0">>), Num(0), Num(7)>>}
           \cup {<<store_ds1, Str(<<"v","m">>), Str(<<"1","0","0">>)>> \o keeps : keeps \in [1..5 -> {Num(-1), Num(0), Num(7)}]}
           \cup {<<store_ds1, Str(<<"v","m">>), Str(<<"1","0","0">>), Num(1), None>>}
    [] OTHER -> {<<store_ds1>>}

(* WHM / cPanel *)
account_bob == Str(<<"b","o","b">>)

\* Service names a caller may pass: the allowed ones, and others.
ServiceInputs ==
  allowed_services \cup
  {Str(<<"t","e","l","n","e","t">>), Str(<<"H","T","T","P","D">>), Str(<<" ","h","t","t","p","d"," ">>), Str(<<"h","t","t","p">>), Str(<<" ">>), EmptyStr,
   None, Num(1), List(<<Str(<<"h","t","t","p","d">>)>>)}

WhmBags(func) ==
  {None, Dict(EmptyKv)} \cup
  {Bag([account |-> a, reason |-> r, service |-> s]) :
     a \in IF func \in {"get_disk_usage", "suspend_account", "unsuspend_account"}
           THEN {Absent, None, EmptyStr, Str(<<" "," ">>), account_bob, Str(<<" ","b","o","b"," ">>), Num(5)}
           ELSE IF func = "get_bandwidth" THEN {Absent, EmptyStr, account_bob}
           ELSE {Absent},
     r \in IF func = "suspend_account" THEN {Absent, Str(<<"s","p","a","m">>)} ELSE {Absent},
     s \in IF func = "restart_service" THEN ServiceInputs \cup {Absent} ELSE {Absent}}

WhmFewBodies ==
  {Dict([k \in {"status"} |-> Num(1)]),
   Dict([k \in {"status", "statusmsg"} |-> IF k = "status" THEN Num(0) ELSE Lit("denied")]),
   Dict([k \in {"result"} |-> List(<<Dict([j \in {"status"} |-> Num(1)])>>)])}

WhmFewResponses(func) ==
  LET few == {<<Failure("ConnectionError")>>} \cup {<<Http(b)>> : b \in WhmFewBodies}
  IN  IF func = "get_server_resources" THEN Pairs(few, few) ELSE few

\* A body with `payload` under `key`.
Under(key, payloads) == {Dict([k \in {key} |-> p]) : p \in payloads}

WhmBodies(func) ==
  WhmFewBodies \cup {Dict(EmptyKv), None, Num(1), List(<<>>)} \cup
  Under("status", {Num(0), Num(1), False, None, Str(<<"0">>)}) \cup
  Under("result", {List(<<Dict([k \in {"status"} |-> Num(1)]),
                          Dict([k \in {"status", "statusmsg"} |->
                                  IF k = "status" THEN Num(0) ELSE Lit("no such user")]),
                          Dict([k \in {"status", "statusmsg"} |->
                                  IF k = "status" THEN Num(0) ELSE Lit("later")])>>),
                   List(<<None, Dict([k \in {"status"} |-> Num(0)])>>),
                   List(<<Num(0), Dict([k \in {"status"} |-> None])>>),
                   Dict([k \in {"status"} |-> Num(0)])}) \cup
  CASE func = "list_accounts" -> Under("acct", ListPayloads(NonDictItems, SampleItems))
    [] func = "list_domains" -> Under("domain", ListPayloads(NonDictItems, SampleItems))
    [] func = "get_bandwidth" -> Under("bandwidth", ListPayloads(NonDictItems, SampleItems))
    [] func = "get_disk_usage" ->
         Under("result", {List(<<d>>) : d \in NumDicts("diskquota", "disklimit")}
                           \cup {List(<<>>), List(<<None>>), Num(1)})
    [] func = "get_hostname" -> Under("hostname", {Str(<<"h","o","s","t","1">>)})
    [] OTHER -> {}

WhmResponses(func) ==
  IF func = "get_server_resources"
  THEN Pairs({<<Failure("SSLError")>>} \cup
             {<<Http(b)>> : b \in Under("avg", {List(<<Num(1), Num(2), Num(MaxNum)>>),
                                               List(<<Num(MaxNum)>>), List(<<>>)})
                                   \cup {Dict(EmptyKv)}},
             {<<Failure("HTTPError")>>} \cup
             {<<Http(b)>> : b \in Under("partition",
                 {List(<<Dict([k \in {"mount", "total"} |->
                                 IF k = "mount" THEN Str(<<"/">>) ELSE Num(MaxNum)])>>),
                  List(<<None, Dict([k \in {"mount"} |-> Str(<<"/","h","o","m","e">>)])>>),
                  None}) \cup {Dict(EmptyKv), List(<<>>)}})
  ELSE Responses(WhmBodies(func))

WhmArgs(func) ==
  CASE func \in {"get_server_resources", "list_accounts", "list_domains", "get_hostname"} ->
         {<<>>}
    [] func = "get_bandwidth" -> {<<>>, <<account_bob>>, <<EmptyStr>>}
    [] func = "suspend_account" -> {<<account_bob>>, <<account_bob, Str(<<"s","p","a","m">>)>>}
    [] func = "restart_service" -> {<<s>> : s \in ServiceInputs}
    [] OTHER -> {<<account_bob>>}


(* Voice flows *)
\* The turns a voice flow is run in: the LLM's classification reply (the
\* intent of every branch with every value of its identifiers, as bare JSON;
\* one of them inside fences, after other text and inside a list; no JSON at
\* all; a JSON number; an action the flow does not know; no str), the user's
\* answers, and what the capability worker and the backend do.
Turns(sys) ==
  LET branches == CASE sys = "pve" -> pve_run.branches
                    [] sys = "pbs" -> pbs_run.branches
                    [] OTHER -> whm_run.branches
      Values(key) ==
        CASE key = "node" -> {EmptyStr, Str(<<" ","p","v","e","1"," ">>)}
          [] key = "vmid" -> {EmptyStr, Str(<<"1","0","0">>), Str(<<"a","b","c">>), Num(100)}
          [] key = "datastore" -> {EmptyStr, Str(<<"d","s","1">>)}
          [] key = "job_id" -> {EmptyStr, Str(<<"j","o","b","1">>)}
          [] key = "account" -> {EmptyStr, Str(<<"b","o","b">>), Num(5)}
          [] OTHER -> {EmptyStr, Str(<<"h","t","t","p","d">>), Str(<<"t","e","l","n","e","t">>)}
      Intents(b) ==
        {Dict([k \in {"action"} \cup IntentKeys(sys) |->
                 IF k = "action" THEN Lit(b.action) ELSE f[k]]) :
           f \in {g \in [IntentKeys(sys) -> UNION {Values(k) : k \in IntentKeys(sys)}] :
                    \A k \in IntentKeys(sys) :
                      IF k \in {b.asks[i][1] : i \in DOMAIN b.asks}
                              \cup {b.gives[i] : i \in DOMAIN b.gives}
                      THEN g[k] \in Values(k) ELSE g[k] = EmptyStr}}
      Tok(t) == [t |-> t, v |-> None]
      Json(v) == [t |-> "json", v |-> v]
      first == CHOOSE d \in Intents(branches[1]) : TRUE
      Bare(b) == {Str(<<Json(d)>>) : d \in Intents(b)}
      odd == {Str(<<Tok("fence_json"), Tok("space"), Json(first), Tok("space"), Tok("fence")>>),
              Str(<<Tok("space"), Json(first), Tok("space")>>),
              Str(<<Tok("text"), Json(first)>>),
              Str(<<Json(List(<<first>>))>>),
              Str(<<Json(Num(1))>>),
              Str(<<Json(Dict([k \in {"action"} |-> Lit("make_coffee")]))>>),
              Str(<<Json(Dict(EmptyKv))>>),
              Str(<<Tok("text")>>),
              Str(<<Tok("fence_json"), Tok("text"), Tok("fence")>>),
              Str(<<>>),
              None}
      Few(func) == CASE sys = "pve" -> FewResponses
                     [] sys = "pbs" -> PbsFewResponses(func)
                     [] OTHER -> WhmFewResponses(func)
      answers == [k \in IntentKeys(sys) |->
                    CASE k = "node" -> {Str(<<"p","v","e","1"," ">>)}
                      [] k = "vmid" -> {Str(<<" ","1","0","0">>), Str(<<"a","b","c">>)}
                      [] k = "datastore" -> {Str(<<"d","s","1">>)}
                      [] k = "job_id" -> {Str(<<"j","o","b","1">>)}
                      [] k = "account" -> {Str(<<"b","o","b">>)}
                      [] OTHER -> {Str(<<"h","t","t","p","d">>)}]
      Rest(replies, resps) ==
        {[reply |-> r, answers |-> a, confirmed |-> c, fails |-> n, mute |-> m, resps |-> x] :
           r \in replies,
           a \in {g \in [IntentKeys(sys) -> UNION {answers[k] : k \in IntentKeys(sys)}] :
                    \A k \in IntentKeys(sys) : g[k] \in answers[k]},
           c \in BOOLEAN, n \in 0..MaxFails, m \in BOOLEAN, x \in resps}
  IN  UNION {Rest(Bare(branches[i]), Few(branches[i].func)) : i \in DOMAIN branches}
        \cup Rest(odd, Few(branches[1].func))
(***************************************************************************)
(* The state machine                                                       *)
(***************************************************************************)
Call(sys, entry, command, name, func, bag, args, resps) ==
  [sys |-> sys, entry |-> entry, command |-> command, name |-> name,
   func |-> func, bag |-> bag, args |-> args, resps |-> resps]

NoCall == Call("none", "none", <<>>, <<>>, NoFunc, None, <<>>, <<>>)

\* No voice flow ran.
Silent == [said |-> <<>>, caught |-> ""]

\* DEFAULT_CONFIG of each module, the fields the client reads; _config is a
\* copy of it.
DEFAULT_CONFIG ==
  [pve |-> [host |-> "your-proxmox-host.example.com", port |-> 8006, verify_ssl |-> TRUE],
   pbs |-> [host |-> "your-pbs-host.example.com", port |-> 8007, verify_ssl |-> TRUE],
   whm |-> [host |-> "your-whm-host.example.com", port |-> 2087, verify_ssl |-> TRUE]]

Init ==
  /\ call = NoCall
  /\ outcome = Return(None)
  /\ invoked = <<>>
  /\ requests = <<>>
  /\ config = DEFAULT_CONFIG
  /\ attempt = 0
  /\ voice = Silent

\* The modules are synchronous and single-threaded: a call is made when no
\* call is in progress, and runs to its end.
Idle == call = NoCall

\* The caller makes the call of the state again, with the same arguments,
\* after its requests could not connect or were answered with an empty
\* object.
Again(sys, entry) ==
  /\ call.sys = sys
  /\ call.entry = entry
  /\ attempt < MaxAttempts
  /\ \A i \in DOMAIN call.resps :
       call.resps[i] \in {Failure("ConnectionError"), Http(Dict(EmptyKv))}

\* proxmox.execute_command(command, args)
PveExecuteCommand ==
  /\ Idle \/ Again("pve", "execute_command")
  /\ \E cmd \in CommandInputs(pve_cmd_map) \cup {<<u, <<>>>> : u \in UnknownCommands} :
       /\ Idle \/ call.command = cmd[1]
       /\ \E bag \in PveBags(MapGet(pve_cmd_map, cmd[2])), resps \in FewResponses :
         LET result == pve_execute_command(cmd[1], bag, resps) IN
         /\ Idle \/ call.bag = bag
         /\ call' = Call("pve", "execute_command", cmd[1], cmd[2], NoFunc, bag, <<>>, resps)
         /\ outcome' = result.out
         /\ invoked' = result.calls
         /\ requests' = result.reqs
         /\ attempt' = attempt + 1
         /\ UNCHANGED <<config, voice>>

\* A direct call of one of proxmox's operation functions.
PveOperation ==
  /\ Idle \/ Again("pve", "operation")
  /\ \E func \in {pve_cmd_map[i][2] : i \in DOMAIN pve_cmd_map} :
       /\ Idle \/ call.func = func
       /\ \E args \in PveArgs(func), resps \in Responses(DataBodies(PvePayloads(func))) :
         LET op == pve_call(func, args, resps) IN
         /\ Idle \/ call.args = args
         /\ call' = Call("pve", "operation", <<>>, <<>>, func, None, args, resps)
         /\ outcome' = op.out
         /\ invoked' = <<[func |-> func, args |-> args]>>
         /\ requests' = op.reqs
         /\ attempt' = attempt + 1
         /\ UNCHANGED <<config, voice>>

\* proxmox_backup.execute_command(command, args)
PbsExecuteCommand ==
  /\ Idle \/ Again("pbs", "execute_command")
  /\ \E cmd \in CommandInputs(pbs_cmd_map) \cup {<<u, <<>>>> : u \in UnknownCommands} :
       /\ Idle \/ call.command = cmd[1]
       /\ \E bag \in PbsBags(MapGet(pbs_cmd_map, cmd[2])),
          resps \in PbsFewResponses(MapGet(pbs_cmd_map, cmd[2])) :
         LET result == pbs_execute_command(cmd[1], bag, resps) IN
         /\ Idle \/ call.bag = bag
         /\ call' = Call("pbs", "execute_command", cmd[1], cmd[2], NoFunc, bag, <<>>, resps)
         /\ outcome' = result.out
         /\ invoked' = result.calls
         /\ requests' = result.reqs
         /\ attempt' = attempt + 1
         /\ UNCHANGED <<config, voice>>

\* A direct call of one of proxmox_backup's operation functions.
PbsOperation ==
  /\ Idle \/ Again("pbs", "operation")
  /\ \E func \in {pbs_cmd_map[i][2] : i \in DOMAIN pbs_cmd_map} :
       /\ Idle \/ call.func = func
       /\ \E args \in PbsArgs(func), resps \in PbsResponses(func) :
         LET op == pbs_call(func, args, resps) IN
         /\ Idle \/ call.args = args
         /\ call' = Call("pbs", "operation", <<>>, <<>>, func, None, args, resps)
         /\ outcome' = op.out
         /\ invoked' = <<[func |-> func, args |-> args]>>
         /\ requests' = op.reqs
         /\ attempt' = attempt + 1
         /\ UNCHANGED <<config, voice>>

\* whm.execute_command(command, args)
WhmExecuteCommand ==
  /\ Idle \/ Again("whm", "execute_command")
  /\ \E cmd \in CommandInputs(whm_cmd_map) \cup {<<u, <<>>>> : u \in UnknownCommands} :
       /\ Idle \/ call.command = cmd[1]
       /\ \E bag \in WhmBags(MapGet(whm_cmd_map, cmd[2])),
          resps \in WhmFewResponses(MapGet(whm_cmd_map, cmd[2])) :
         LET result == whm_execute_command(cmd[1], bag, resps) IN
         /\ Idle \/ call.bag = bag
         /\ call' = Call("whm", "execute_command", cmd[1], cmd[2], NoFunc, bag, <<>>, resps)
         /\ outcome' = result.out
         /\ invoked' = result.calls
         /\ requests' = result.reqs
         /\ attempt' = attempt + 1
         /\ UNCHANGED <<config, voice>>

\* A direct call of one of whm's operation functions.
WhmOperation ==
  /\ Idle \/ Again("whm", "operation")
  /\ \E func \in {whm_cmd_map[i][2] : i \in DOMAIN whm_cmd_map} :
       /\ Idle \/ call.func = func
       /\ \E args \in WhmArgs(func), resps \in WhmResponses(func) :
         LET op == whm_call(func, args, resps) IN
         /\ Idle \/ call.args = args
         /\ call' = Call("whm", "operation", <<>>, <<>>, func, None, args, resps)
         /\ outcome' = op.out
         /\ invoked' = <<[func |-> func, args |-> args]>>
         /\ requests' = op.reqs
         /\ attempt' = attempt + 1
         /\ UNCHANGED <<config, voice>>

\* A call of one subsystem's _make_api_request(endpoint): one
\* requests.request(...) and what the client makes of its response.
ClientRequest ==
  /\ \E sys \in {"pve", "pbs", "whm"} :
       /\ Idle \/ Again(sys, "client")
       /\ \E resps \in IF sys = "whm" THEN Responses(WhmBodies("get_hostname"))
                     ELSE Responses(DataBodies(ListPayloads(NonDictItems, SampleItems))
                                    \cup {None, Num(1)}) :
         /\ call' = Call(sys, "client", <<>>, <<>>, "_make_api_request", None, <<>>, resps)
         /\ outcome' = CASE sys = "pve" -> pve_make_api_request(resps[1])
                         [] sys = "pbs" -> pbs_make_api_request(resps[1])
                         [] OTHER -> whm_make_api_request(resps[1])
         /\ invoked' = <<>>
         /\ requests' = <<Req("GET", Path("endpoint", <<>>), None, None)>>
         /\ attempt' = attempt + 1
         /\ UNCHANGED <<config, voice>>

\* The platform runs the voice flow of one capability for a turn.
VoiceRun ==
  /\ Idle
  /\ \E sys \in {"pve", "pbs", "whm"} :
       \E turn \in Turns(sys) :
         \E ran \in {run(sys, turn)} :
         /\ call' = Call(sys, "run", <<>>, <<>>, NoFunc, turn, <<>>, turn.resps)
         /\ outcome' = ran.out
         /\ invoked' = ran.calls
         /\ requests' = ran.reqs
         /\ voice' = [said |-> ran.said, caught |-> ran.caught]
         /\ attempt' = 1
         /\ UNCHANGED config

\* The caller has taken the result; the next call starts from nothing, as no
\* call leaves anything behind.
NextCall ==
  /\ ~Idle
  /\ call' = NoCall
  /\ outcome' = Return(None)
  /\ invoked' = <<>>
  /\ requests' = <<>>
  /\ attempt' = 0
  /\ voice' = Silent
  /\ UNCHANGED config

Next ==
  \/ PveExecuteCommand
  \/ PveOperation
  \/ PbsExecuteCommand
  \/ PbsOperation
  \/ WhmExecuteCommand
  \/ WhmOperation
  \/ ClientRequest
  \/ VoiceRun
  \/ NextCall

Spec == Init /\ [][Next]_vars

(***************************************************************************)
(* Properties                                                              *)
(***************************************************************************)
\* The call in progress is one of execute_command.
Dispatched == call.entry = "execute_command"

\* The routing table of the subsystem the call is made to.
CmdMap ==
  CASE call.sys = "pve" -> pve_cmd_map
    [] call.sys = "pbs" -> pbs_cmd_map
    [] OTHER -> whm_cmd_map

\* The command text as the dispatchers normalise it.
Normalized == str_strip(str_lower(call.command))

\* The function the command is routed to, NoFunc when it is unknown.
Routed == MapGet(CmdMap, Normalized)

\* The operation function that ran, called directly or by a dispatcher.
Ran == IF Dispatched THEN (IF invoked = <<>> THEN NoFunc ELSE invoked[1].func) ELSE call.func

\* args.get(key) on the argument bag the caller passed.
Arg(key) == DictGet(call.bag, key, None)

Raised == outcome.status = "raise"
Returned == call # NoCall /\ outcome.status = "ok"

Abs(n) == IF n < 0 THEN -n ELSE n

IsSorted(names) ==
  \A i, j \in DOMAIN names : i < j => ~str_less(names[j], names[i])

\* a in b on str
IsSubstring(a, b) ==
  \E i \in 0..Len(b) : i + Len(a) <= Len(b) /\ SubSeq(b, i + 1, i + Len(a)) = a

\* A str holding a decimal integer, as int() reads it.
DecimalText(v) ==
  /\ v.t = "str"
  /\ str_strip(v.s) # <<>>
  /\ \A i \in DOMAIN str_strip(v.s) :
       str_strip(v.s)[i] \in {"0", "1", "2", "3", "4", "5", "6", "7", "8", "9"}

\* C1: in each dispatcher, a command that after lower() and strip() is no key
\* of the routing table makes execute_command raise a ValueError whose message
\* lists every key of that table in sorted order, and no operation function
\* is called.
C1_UnknownCommandListsSortedNames ==
  (Dispatched /\ ~MapHas(CmdMap, Normalized)) =>
    /\ Raised
    /\ outcome.exc = "ValueError"
    /\ outcome.msg.cmd = Normalized
    /\ IsSorted(outcome.msg.listing)
    /\ Len(outcome.msg.listing) = Len(CmdMap)
    /\ \A i \in DOMAIN CmdMap : \E j \in DOMAIN outcome.msg.listing :
         outcome.msg.listing[j] = CmdMap[i][1]
    /\ invoked = <<>>

C1_Witness ==
  /\ Dispatched
  /\ call.sys = "pbs"
  /\ call.command = <<"f","r","o","b","n","i","c","a","t","e">>
  /\ Raised
  /\ Len(outcome.msg.listing) > 1
  /\ outcome.msg.listing[1] = <<"b","a","c","k","u","p","_","g","r","o","u","p","s">>
  /\ outcome.msg.listing[2] = <<"d","a","t","a","s","t","o","r","e","_","s","t","a","t","u","s">>
  /\ invoked = <<>>

\* C2: a command name in any letter case, with or without surrounding
\* whitespace, and every alias of the same operation, make execute_command
\* call the same operation function with the same arguments for the same
\* argument bag, with the same requests and the same result.
C2_SpellingsAndAliasesAgree ==
  (Dispatched /\ call.name # <<>>) =>
    \A i \in DOMAIN CmdMap :
      LET other ==
            CASE call.sys = "pve" -> pve_execute_command(CmdMap[i][1], call.bag, call.resps)
              [] call.sys = "pbs" -> pbs_execute_command(CmdMap[i][1], call.bag, call.resps)
              [] OTHER -> whm_execute_command(CmdMap[i][1], call.bag, call.resps)
      IN  CmdMap[i][2] = MapGet(CmdMap, call.name) =>
            /\ other.calls = invoked
            /\ other.reqs = requests
            /\ other.out.status = outcome.status
            /\ Returned => other.out = outcome
            /\ CmdMap[i][1] = call.name => other.out = outcome

C2_Witness ==
  /\ Dispatched
  /\ call.sys = "pve"
  /\ call.command = <<" ","V","M","S">> \o <<"\t", " ">>
  /\ call.name = <<"v","m","s">>
  /\ invoked = <<[func |-> "list_vms", args |-> <<node_pve1>>]>>
  /\ Returned

\* A Proxmox VE command that takes a vmid, given a non-empty node.
VmidCall ==
  /\ Dispatched
  /\ call.sys = "pve"
  /\ Routed \in {"get_vm_status", "start_vm", "stop_vm", "reboot_vm", "shutdown_vm",
                 "start_container", "stop_container", "reboot_container"}
  /\ Truthy(Arg("node"))

\* C3 as stated: a decimal string vmid reaches the operation as the integer,
\* an absent vmid raises the missing-argument error, and a vmid that cannot be
\* converted raises a TypeError with no operation function called.
C3_VmidCoercion_AsStated ==
  VmidCall =>
    /\ Arg("vmid") = Str(<<"1","0","0">>) =>
         invoked = <<[func |-> Routed, args |-> <<Arg("node"), Num(100)>>]>>
    /\ Arg("vmid") = None =>
         Raised /\ outcome.exc = "ValueError" /\ outcome.msg.field = {"vmid"} /\ invoked = <<>>
    /\ (Arg("vmid").t = "str" /\ ~DecimalText(Arg("vmid"))) =>
         Raised /\ outcome.exc = "TypeError" /\ invoked = <<>>

\* C3, amended: as stated, except that a str that holds no decimal integer
\* ("abc", "") raises the ValueError of int(); the TypeError is raised for a
\* vmid that is neither a str nor a number (a list).
C3_VmidCoercion ==
  VmidCall =>
    /\ Arg("vmid") = Str(<<"1","0","0">>) =>
         invoked = <<[func |-> Routed, args |-> <<Arg("node"), Num(100)>>]>>
    /\ Arg("vmid") = None =>
         Raised /\ outcome.exc = "ValueError" /\ outcome.msg.field = {"vmid"} /\ invoked = <<>>
    /\ (Arg("vmid").t = "str" /\ ~DecimalText(Arg("vmid"))) =>
         Raised /\ outcome.exc = "ValueError" /\ invoked = <<>> /\ requests = <<>>
    /\ Arg("vmid").t = "list" =>
         Raised /\ outcome.exc = "TypeError" /\ invoked = <<>> /\ requests = <<>>

C3_Witness ==
  /\ VmidCall
  /\ Routed = "start_vm"
  /\ Arg("vmid") = Str(<<"a","b","c">>)
  /\ Raised
  /\ outcome.exc = "ValueError"
  /\ invoked = <<>>

\* A call of WHM restart_service, direct or through execute_command.
RestartCall ==
  /\ call.sys = "whm"
  /\ \/ call.entry = "operation" /\ call.func = "restart_service"
     \/ Dispatched /\ Routed = "restart_service"

\* The service value of the call.
RestartService == IF Dispatched THEN Arg("service") ELSE call.args[1]

\* C4: WHM restart_service, called directly or through execute_command, sends
\* a request only when the service is exactly one of httpd, exim, mysql,
\* named, ftpd, sshd, cpsrvd; for any other value it raises and no request
\* is sent.
C4_RestartServiceAllowList ==
  RestartCall =>
    LET listed == RestartService \in {Str(<<"h","t","t","p","d">>), Str(<<"e","x","i","m">>), Str(<<"m","y","s","q","l">>),
                                      Str(<<"n","a","m","e","d">>), Str(<<"f","t","p","d">>), Str(<<"s","s","h","d">>),
                                      Str(<<"c","p","s","r","v","d">>)}
    IN  /\ listed => Len(requests) = 1 /\ requests[1].params.kv["service"] = RestartService
        /\ ~listed => Raised /\ requests = <<>> /\ outcome.origin = "validation"

C4_Witness ==
  /\ RestartCall
  /\ Dispatched
  /\ call.command = <<"r","e","s","t","a","r","t">>
  /\ RestartService = Str(<<"t","e","l","n","e","t">>)
  /\ Raised
  /\ invoked = <<[func |-> "restart_service", args |-> <<Str(<<"t","e","l","n","e","t">>)>>]>>
  /\ requests = <<>>

\* A call of PBS run_prune, direct or by execute_command, with numbers for
\* the keep_* arguments it was given.
PruneCall ==
  /\ call.sys = "pbs"
  /\ Ran = "run_prune"
  /\ \A i \in 4..Len(invoked[1].args) : invoked[1].args[i].t = "int"

\* The keep_* argument of tier i of the call, 0 when it was not passed.
PruneKeep(i) ==
  IF Len(invoked[1].args) >= 3 + i THEN invoked[1].args[3 + i] ELSE Num(0)

PruneTiers == <<"keep-last", "keep-daily", "keep-weekly", "keep-monthly", "keep-yearly">>

\* C5: the body PBS run_prune sends holds keep-<tier> exactly for the tiers
\* whose keep_<tier> argument is greater than zero, with that value, and
\* always backup-type and backup-id.
C5_PruneBodyKeeps ==
  PruneCall =>
    /\ Len(requests) = 1
    /\ requests[1].method = "POST"
    /\ LET body == requests[1].body IN
       /\ body.t = "dict"
       /\ DOMAIN body.kv \subseteq {"backup-type", "backup-id"} \cup {PruneTiers[i] : i \in 1..5}
       /\ DictHas(body, "backup-type") /\ body.kv["backup-type"] = invoked[1].args[2]
       /\ DictHas(body, "backup-id") /\ body.kv["backup-id"] = invoked[1].args[3]
       /\ \A i \in 1..5 :
            /\ DictHas(body, PruneTiers[i]) <=> PruneKeep(i).n > 0
            /\ PruneKeep(i).n > 0 => body.kv[PruneTiers[i]] = PruneKeep(i)

C5_Witness ==
  /\ PruneCall
  /\ Len(invoked[1].args) = 5
  /\ PruneKeep(1) = Num(0)
  /\ PruneKeep(2) = Num(7)
  /\ Len(requests) = 1
  /\ DictHas(requests[1].body, "keep-daily")
  /\ ~DictHas(requests[1].body, "keep-last")

\* The field of an operation's result that holds its list, "" when the
\* operation returns no collection.
ListField ==
  CASE call.sys = "pve" /\ Ran = "list_nodes" -> "nodes"
    [] call.sys = "pve" /\ Ran = "list_vms" -> "vms"
    [] call.sys = "pve" /\ Ran = "list_containers" -> "containers"
    [] call.sys = "pve" /\ Ran = "list_storage" -> "storage"
    [] call.sys = "pve" /\ Ran = "get_cluster_status" -> "cluster"
    [] call.sys = "pve" /\ Ran = "list_cluster_resources" -> "resources"
    [] call.sys = "pve" /\ Ran = "list_tasks" -> "tasks"
    [] call.sys = "pbs" /\ Ran = "list_datastores" -> "datastores"
    [] call.sys = "pbs" /\ Ran = "list_datastore_snapshots" -> "snapshots"
    [] call.sys = "pbs" /\ Ran = "list_backup_groups" -> "groups"
    [] call.sys = "pbs" /\ Ran = "list_sync_jobs" -> "sync_jobs"
    [] call.sys = "pbs" /\ Ran = "list_verify_jobs" -> "verify_jobs"
    [] call.sys = "pbs" /\ Ran = "list_tasks" -> "tasks"
    [] call.sys = "whm" /\ Ran = "list_accounts" -> "accounts"
    [] call.sys = "whm" /\ Ran = "list_domains" -> "domains"
    [] call.sys = "whm" /\ Ran = "get_bandwidth" -> "bandwidth"
    [] OTHER -> ""

\* C6: every operation that returns a collection returns a result with a
\* field named total that equals the length of the result's list field.
C6_TotalCountsTheList ==
  (Returned /\ ListField # "") =>
    /\ ListField \in DOMAIN outcome.value
    /\ "total" \in DOMAIN outcome.value
    /\ outcome.value["total"] = Len(outcome.value[ListField])

\* pct, in hundredths, is used / max(total, 1) * 100 rounded to 2 decimals.
IsPercentOf(pct, used, total) ==
  LET den == IF total >= 1 THEN total ELSE 1
  IN  2 * Abs(pct * den - used * 100 * 100) <= den

\* The percentages a result reports: <<percentage, used, total>>.
Percentages ==
  LET v == outcome.value IN
  CASE call.sys = "pve" /\ Ran = "list_nodes" ->
         {<<v.nodes[i].memory_percent, v.nodes[i].memory_used.n, v.nodes[i].memory_total.n>> :
            i \in DOMAIN v.nodes}
    [] call.sys = "pve" /\ Ran = "list_storage" ->
         {<<v.storage[i].percent_used, v.storage[i].used_bytes.n, v.storage[i].total_bytes.n>> :
            i \in DOMAIN v.storage}
    [] call.sys \in {"pve", "pbs"} /\ Ran = "get_node_status" /\ "memory" \in DOMAIN v ->
         {<<v.memory.percent_used, v.memory.used_bytes.n, v.memory.total_bytes.n>>,
          <<v.disk.percent_used, v.disk.used_bytes.n, v.disk.total_bytes.n>>}
    [] call.sys = "pbs" /\ Ran = "get_datastore_status" ->
         {<<v.percent_used, v.used_bytes.n, v.total_bytes.n>>}
    [] OTHER -> {}

\* C7 as stated: every percentage an operation reports, that of WHM
\* get_disk_usage included, is used / max(total, 1) * 100 rounded to 2
\* decimals, so a total of 0 with 5 used gives 500.0.
C7_Percentages_AsStated ==
  Returned =>
    /\ \A p \in Percentages : IsPercentOf(p[1], p[2], p[3])
    /\ (call.sys = "whm" /\ Ran = "get_disk_usage") =>
         IsPercentOf(outcome.value.percent_used, outcome.value.disk_usage_bytes.n,
                     outcome.value.disk_limit_bytes.n)

\* C7, amended: the percentages of Proxmox VE and PBS are
\* used / max(total, 1) * 100 rounded to 2 decimals (500.0 for 5 used of 0);
\* that of WHM get_disk_usage is used / limit * 100 rounded to 2 decimals for
\* a limit above 0 and is 0 for a limit of 0.  No operation fails on a total
\* of 0.
C7_Percentages ==
  /\ Returned =>
       /\ \A p \in Percentages :
            /\ IsPercentOf(p[1], p[2], p[3])
            /\ (p[2] = 5 /\ p[3] = 0) => p[1] = 500 * 100
       /\ (call.sys = "whm" /\ Ran = "get_disk_usage") =>
            IF outcome.value.disk_limit_bytes.n > 0
            THEN IsPercentOf(outcome.value.percent_used, outcome.value.disk_usage_bytes.n,
                             outcome.value.disk_limit_bytes.n)
            ELSE outcome.value.percent_used = 0
  /\ Raised => outcome.exc # "ZeroDivisionError"

C7_Witness ==
  /\ Returned
  /\ call.sys = "pve"
  /\ Ran = "list_storage"
  /\ <<500 * 100, 5, 0>> \in Percentages

\* The payload found where the operation that ran expects its list: for
\* Proxmox VE and PBS the body's "data" (the body itself without it), for
\* WHM the body's entry of the operation's key.  Absent when there is none.
ListPayload ==
  LET body == call.resps[1].body
      key == CASE Ran = "list_accounts" -> "acct"
               [] Ran = "list_domains" -> "domain"
               [] OTHER -> "bandwidth"
  IN  IF call.resps = <<>> \/ call.resps[1].t # "http" \/ body.t # "dict" THEN Absent
      ELSE IF call.sys = "whm" THEN DictGet(body, key, Absent)
      ELSE DictGet(body, "data", body)

\* The count field of a collection result.
CountField == IF "total" \in DOMAIN outcome.value THEN "total" ELSE "total_entries"

\* C8: a list operation whose backend payload is not a list where a list is
\* expected (a dict, null, a scalar) returns an empty list with a count of 0
\* and raises nothing.
C8_NonListGivesEmptyList ==
  (call.entry = "operation" /\ ListField # "" /\ ListPayload.t \notin {"absent", "list"}) =>
    /\ Returned
    /\ outcome.value[ListField] = <<>>
    /\ outcome.value[CountField] = 0

\* The arguments of the call do not pass the dispatcher's validation.
InvalidInput ==
  \/ Routed = NoFunc
  \/ /\ call.sys = "pve"
     /\ \/ /\ Routed \notin {"list_nodes", "get_cluster_status", "list_cluster_resources"}
           /\ ~Truthy(Arg("node"))
        \/ /\ Routed \in {"get_vm_status", "start_vm", "stop_vm", "reboot_vm", "shutdown_vm",
                          "start_container", "stop_container", "reboot_container"}
           /\ Arg("vmid").t # "int"
           /\ ~DecimalText(Arg("vmid"))
  \/ /\ call.sys = "pbs"
     /\ \/ /\ Routed \in {"get_datastore_status", "list_datastore_snapshots",
                          "list_backup_groups", "run_garbage_collection", "run_prune"}
           /\ ~Truthy(Arg("datastore"))
        \/ /\ Routed = "run_prune"
           /\ \/ ~Truthy(Arg("backup_type"))
              \/ ~Truthy(Arg("backup_id"))
              \/ \E k \in {"keep_last", "keep_daily", "keep_weekly", "keep_monthly",
                           "keep_yearly"} : Arg(k).t \notin {"none", "int"}
        \/ Routed \in {"run_sync_job", "run_verify_job"} /\ ~Truthy(Arg("job_id"))
        \/ Routed = "get_task_status" /\ ~Truthy(Arg("upid"))
  \/ /\ call.sys = "whm"
     /\ \/ /\ Routed \in {"get_disk_usage", "suspend_account", "unsuspend_account"}
           /\ (Arg("account").t # "str" \/ str_strip(Arg("account").s) = <<>>)
        \/ /\ Routed = "restart_service"
           /\ Arg("service") \notin {Str(<<"h","t","t","p","d">>), Str(<<"e","x","i","m">>), Str(<<"m","y","s","q","l">>),
                                     Str(<<"n","a","m","e","d">>), Str(<<"f","t","p","d">>), Str(<<"s","s","h","d">>),
                                     Str(<<"c","p","s","r","v","d">>)}

\* C9: in all three dispatchers, a call of execute_command that fails on
\* validation (unknown command, missing or blank required argument,
\* disallowed service, non-integer id, wrongly typed argument) sends no
\* request; and every call with such input fails so.
C9_ValidationSendsNoRequest ==
  Dispatched =>
    /\ InvalidInput => Raised /\ outcome.origin = "validation" /\ requests = <<>>
    /\ (Raised /\ outcome.origin \notin {"transport", "api", "shape"}) => requests = <<>>

C9_Witness ==
  /\ Dispatched
  /\ call.sys = "whm"
  /\ Routed = "suspend_account"
  /\ Arg("account") = Str(<<" "," ">>)
  /\ call.resps[1].t = "http"
  /\ Raised
  /\ outcome.origin = "validation"
  /\ requests = <<>>

\* C10: every validation failure a dispatcher raises has a message that
\* names the command the caller passed, as normalised, and, for a known
\* command, the missing or invalid field.
C10_ValidationErrorNamesCommandAndField ==
  (Dispatched /\ Raised /\ outcome.origin = "validation" /\ invoked = <<>>) =>
    /\ IsSubstring(Normalized, outcome.msg.cmd)
    /\ Routed # NoFunc => outcome.msg.field # {}

\* What the operation function the dispatcher called did, computed apart
\* from the dispatcher.
TheCall ==
  CASE call.sys = "pve" -> pve_call(invoked[1].func, invoked[1].args, call.resps)
    [] call.sys = "pbs" -> pbs_call(invoked[1].func, invoked[1].args, call.resps)
    [] OTHER -> whm_call(invoked[1].func, invoked[1].args, call.resps)

\* C11 as stated: a successful execute_command invokes exactly one operation
\* function once and returns its result unchanged, a failing call invokes
\* none, and the only requests are those of the operation invoked.
C11_OneOperationPerCall_AsStated ==
  Dispatched =>
    /\ Returned => Len(invoked) = 1 /\ outcome = TheCall.out
    /\ Raised => invoked = <<>>
    /\ requests = IF invoked = <<>> THEN <<>> ELSE TheCall.reqs

\* C11, amended: execute_command invokes at most one operation function, once.
\* A successful call invoked exactly one and returns its result unchanged; a
\* call the dispatcher rejects on validation invoked none; a call may also
\* fail inside the one operation it invoked (transport or API error,
\* restart_service's allow-list, run_prune's comparison), and then raises that
\* operation's exception unchanged.  The only requests are those of the
\* operation invoked.
C11_OneOperationPerCall ==
  Dispatched =>
    /\ Len(invoked) <= 1
    /\ Returned => Len(invoked) = 1
    /\ invoked # <<>> => outcome = TheCall.out /\ requests = TheCall.reqs
    /\ invoked = <<>> => Raised /\ outcome.origin = "validation" /\ requests = <<>>

C11_Witness ==
  /\ Dispatched
  /\ call.sys = "pbs"
  /\ Raised
  /\ outcome.origin = "transport"
  /\ Len(invoked) = 1
  /\ Len(requests) = 1

\* The node argument is absent or empty.
NodeMissing == ~DictHas(call.bag, "node") \/ call.bag.kv["node"] = EmptyStr

\* The call raised the missing-'node' error.
NodeError ==
  /\ Raised
  /\ outcome.exc = "ValueError"
  /\ outcome.origin = "validation"
  /\ outcome.msg.field = {"node"}
  /\ invoked = <<>>

\* C12: in the Proxmox VE dispatcher a command without a node (absent or
\* empty) raises the missing-'node' error exactly when its operation is none
\* of list_nodes, get_cluster_status, list_cluster_resources;
\* list_cluster_resources is called without a node, with the type filter, ""
\* when none is given.
C12_NodeRequiredExceptClusterWide ==
  (Dispatched /\ call.sys = "pve" /\ Routed # NoFunc) =>
    /\ NodeError <=>
         (NodeMissing /\ Routed \notin {"list_nodes", "get_cluster_status",
                                        "list_cluster_resources"})
    /\ Routed = "list_cluster_resources" =>
         invoked = <<[func |-> "list_cluster_resources",
                      args |-> <<IF DictHas(call.bag, "type") THEN call.bag.kv["type"]
                                 ELSE EmptyStr>>]>>

C12_Witness ==
  /\ Dispatched
  /\ call.sys = "pve"
  /\ Routed = "list_cluster_resources"
  /\ NodeMissing
  /\ invoked = <<[func |-> "list_cluster_resources", args |-> <<EmptyStr>>]>>
  /\ Returned

\* The account argument is absent, no str, empty or blank.
AccountUnusable ==
  \/ ~DictHas(call.bag, "account")
  \/ call.bag.kv["account"].t # "str"
  \/ \A i \in DOMAIN call.bag.kv["account"].s :
       call.bag.kv["account"].s[i] \in {" ", "\t", "\n", "\r"}

\* C13: in the WHM dispatcher get_disk_usage, suspend_account and
\* unsuspend_account (and their aliases) raise a validation error without
\* calling the operation whenever the account is absent, no str, empty or
\* blank, and are called with the account otherwise; get_bandwidth is called
\* without an account, with "" in its place.
C13_AccountRequired ==
  (Dispatched /\ call.sys = "whm") =>
    /\ Routed \in {"get_disk_usage", "suspend_account", "unsuspend_account"} =>
         IF AccountUnusable
         THEN /\ Raised
              /\ outcome.exc = "ValueError"
              /\ outcome.origin = "validation"
              /\ outcome.msg.field = {"account"}
              /\ invoked = <<>>
              /\ requests = <<>>
         ELSE /\ Len(invoked) = 1
              /\ invoked[1].func = Routed
              /\ invoked[1].args[1] = call.bag.kv["account"]
    /\ Routed = "get_bandwidth" =>
         invoked = <<[func |-> "get_bandwidth",
                      args |-> <<IF DictHas(call.bag, "account")
                                 THEN call.bag.kv["account"] ELSE EmptyStr>>]>>

C13_Witness ==
  /\ Dispatched
  /\ call.sys = "whm"
  /\ call.command = <<"d","i","s","k">>
  /\ DictHas(call.bag, "account")
  /\ call.bag.kv["account"] = Str(<<" "," ">>)
  /\ Raised
  /\ invoked = <<>>

\* The keep_* argument the caller gave under key, 0 when it gave none.
KeepGiven(key) == IF DictHas(call.bag, key) THEN call.bag.kv[key] ELSE Num(0)

\* C14: the PBS dispatcher calls run_prune only when datastore, backup_type
\* and backup_id are all present and non-empty, and raises a missing-argument
\* error otherwise; each keep_* argument the caller omits is passed as 0.
C14_PruneArguments ==
  (Dispatched /\ call.sys = "pbs" /\ Routed = "run_prune") =>
    IF \A k \in {"datastore", "backup_type", "backup_id"} :
         DictHas(call.bag, k) /\ call.bag.kv[k] # EmptyStr
    THEN invoked = <<[func |-> "run_prune",
                      args |-> <<call.bag.kv["datastore"], call.bag.kv["backup_type"],
                                 call.bag.kv["backup_id"], KeepGiven("keep_last"),
                                 KeepGiven("keep_daily"), KeepGiven("keep_weekly"),
                                 KeepGiven("keep_monthly"), KeepGiven("keep_yearly")>>]>>
    ELSE /\ Raised
         /\ outcome.exc = "ValueError"
         /\ outcome.origin = "validation"
         /\ outcome.msg.field # {}
         /\ outcome.msg.field \subseteq {"datastore", "backup_type", "backup_id"}
         /\ \E k \in outcome.msg.field : ~DictHas(call.bag, k) \/ call.bag.kv[k] = EmptyStr
         /\ invoked = <<>>
         /\ requests = <<>>

C14_Witness ==
  /\ Dispatched
  /\ call.sys = "pbs"
  /\ Routed = "run_prune"
  /\ DictHas(call.bag, "keep_daily")
  /\ ~DictHas(call.bag, "keep_last")
  /\ Len(invoked) = 1
  /\ invoked[1].args[4] = Num(0)
  /\ invoked[1].args[5] = Num(7)
  /\ invoked[1].args[6] = Num(0)

\* The operation functions each module defines.
PveOperations ==
  {"list_nodes", "get_node_status", "list_vms", "get_vm_status", "start_vm",
   "stop_vm", "reboot_vm", "shutdown_vm", "list_containers", "start_container",
   "stop_container", "reboot_container", "list_storage", "get_cluster_status",
   "list_cluster_resources", "list_tasks"}
PbsOperations ==
  {"get_node_status", "list_datastores", "get_datastore_status",
   "list_datastore_snapshots", "list_backup_groups", "list_sync_jobs",
   "run_sync_job", "list_verify_jobs", "run_verify_job",
   "run_garbage_collection", "run_prune", "list_tasks", "get_task_status"}
WhmOperations ==
  {"get_server_resources", "list_accounts", "list_domains", "get_disk_usage",
   "suspend_account", "unsuspend_account", "get_bandwidth", "get_hostname",
   "restart_service"}

\* The rows of table m that route to function f.
RowsTo(m, f) == {i \in DOMAIN m : m[i][2] = f}

\* No name twice, only operation functions, each under one or two names.
TableSound(m, operations) ==
  /\ \A i, j \in DOMAIN m : m[i][1] = m[j][1] => i = j
  /\ \A i \in DOMAIN m : m[i][2] \in operations
  /\ \A f \in operations : Cardinality(RowsTo(m, f)) \in {1, 2}

\* The three routing tables are sound.
TablesSound ==
  /\ TableSound(pve_cmd_map, PveOperations)
  /\ TableSound(pbs_cmd_map, PbsOperations)
  /\ TableSound(whm_cmd_map, WhmOperations)

\* C15: in each routing table every name maps to exactly one operation
\* function, every operation function of the subsystem has at least one name
\* and at most two; a dispatched call under a name of the table calls no
\* function but the one the table gives for it.
C15_RoutingTables ==
  /\ TablesSound
  /\ (Dispatched /\ invoked # <<>>) =>
       /\ Cardinality({i \in DOMAIN CmdMap : CmdMap[i][1] = Normalized}) = 1
       /\ \A i \in DOMAIN CmdMap :
            CmdMap[i][1] = Normalized => invoked[1].func = CmdMap[i][2]

C15_Witness ==
  /\ Dispatched
  /\ call.sys = "whm"
  /\ Normalized = <<"h","o","s","t","n","a","m","e">>
  /\ Len(invoked) = 1
  /\ invoked[1].func = "get_hostname"
  /\ Cardinality(RowsTo(whm_cmd_map, "get_hostname")) = 2
  /\ Cardinality(RowsTo(pve_cmd_map, "start_vm")) = 1

\* C16: the API client never retries.  A call of _make_api_request sends
\* exactly one request; a request that fails in transport is the last one of
\* the call, which raises a single transport error at once, so that no
\* operation sends a request after a failed one (in a voice flow the error
\* raised is the one that run catches).
C16_NoRetry ==
  /\ Len(requests) <= Len(call.resps)
  /\ call.entry = "client" =>
       /\ Len(requests) = 1
       /\ call.resps[1].t = "fail" =>
            Raised /\ outcome.origin = "transport" /\ outcome.exc = "RequestException"
  /\ \A i \in DOMAIN requests :
       call.resps[i].t = "fail" =>
         /\ i = Len(requests)
         /\ IF call.entry = "run" THEN voice.caught = "RequestException"
            ELSE /\ Raised
                 /\ outcome.origin = "transport"
                 /\ outcome.exc = "RequestException"

C16_Witness ==
  /\ call.sys = "pbs"
  /\ Ran = "get_datastore_status"
  /\ Len(call.resps) = 2
  /\ call.resps[1].t = "fail"
  /\ call.resps[1].exc = "ReadTimeout"
  /\ Len(requests) = 1
  /\ Raised
  /\ outcome.msg.text = "Request timed out"

\* The dicts of a WHM body that report a failure: the body itself when its
\* status is 0, the dict items of its result list whose status is 0.
FailedParts(body) ==
  IF ~IsInstance(body, "dict") THEN {}
  ELSE (IF IsZero(DictGet(body, "status", None)) THEN {body} ELSE {})
       \cup {item \in {IterIfList(DictGet(body, "result", None))[i] :
                         i \in DOMAIN IterIfList(DictGet(body, "result", None))} :
               IsInstance(item, "dict") /\ IsZero(DictGet(item, "status", None))}

\* C17: the WHM client raises an API-level error carrying the backend's
\* statusmsg whenever a successful HTTP response has a top-level status of 0
\* or a dict item of its result list has status 0, the error is no transport
\* failure, and in every other case the parsed body is returned unchanged.
C17_WhmStatusCheck ==
  (call.entry = "client" /\ call.sys = "whm" /\ call.resps[1].t = "http") =>
    IF FailedParts(call.resps[1].body) # {}
    THEN /\ Raised
         /\ outcome.exc = "ValueError"
         /\ outcome.origin = "api"
         /\ \E part \in FailedParts(call.resps[1].body) :
              outcome.msg.listing = <<DictGet(part, "statusmsg", Lit("Unknown"))>>
    ELSE outcome = Return(call.resps[1].body)

\* An operation function ran, called directly or by a dispatcher.
OperationRan == call.entry \in {"operation", "execute_command"} /\ Ran # NoFunc

\* C18 as stated: every operation function calls the API client exactly once
\* per invocation, except PBS get_datastore_status, which calls it exactly
\* twice; no operation makes more than two requests.
C18_RequestsPerOperation_AsStated ==
  OperationRan =>
    /\ Len(requests) <= 2
    /\ Len(requests) =
         IF call.sys = "pbs" /\ Ran = "get_datastore_status" THEN 2 ELSE 1

\* C18, amended: no operation makes more than two requests.  PBS
\* get_datastore_status (config, then usage listing) and WHM
\* get_server_resources (loadavg, then getdiskinfo) make exactly two when they
\* succeed, every other operation exactly one.  An invocation that raises
\* sent no request after the one that failed, and none at all only where
\* restart_service rejects the service or run_prune fails on a keep_* value
\* before its request.
C18_RequestsPerOperation ==
  OperationRan =>
    /\ Len(requests) <= 2
    /\ Returned =>
         Len(requests) =
           IF <<call.sys, Ran>> \in {<<"pbs", "get_datastore_status">>,
                                     <<"whm", "get_server_resources">>}
           THEN 2 ELSE 1
    /\ Len(requests) = 2 =>
         <<call.sys, Ran>> \in {<<"pbs", "get_datastore_status">>,
                                <<"whm", "get_server_resources">>}
    /\ Len(requests) = 0 =>
         /\ Raised
         /\ <<call.sys, Ran>> \in {<<"whm", "restart_service">>, <<"pbs", "run_prune">>}
    /\ (Len(requests) = 2 /\ Ran = "get_datastore_status") =>
         /\ requests[1].endpoint.template # requests[2].endpoint.template
         /\ call.resps[1].t = "http"

C18_Witness ==
  /\ OperationRan
  /\ call.sys = "whm"
  /\ Ran = "get_server_resources"
  /\ Returned
  /\ Len(requests) = 2

\* get_datastore_status ran and both its requests were answered.
StatusCall ==
  /\ OperationRan
  /\ call.sys = "pbs"
  /\ Ran = "get_datastore_status"
  /\ Len(requests) = 2
  /\ Returned

\* The datastore name it was asked for.
RequestedStore == IF Dispatched THEN invoked[1].args[1] ELSE call.args[1]

\* What the client hands back for the i-th response: the body's data member,
\* the body where it has none.
Payload(i) ==
  IF DictHas(call.resps[i].body, "data") THEN call.resps[i].body.kv["data"]
  ELSE call.resps[i].body

\* The entries of the usage listing, none when it is no list.
UsageEntries == IF Payload(2).t = "list" THEN Payload(2).xs ELSE <<>>

\* Entry i is a dict whose store is the requested name.
StoreMatch(i) ==
  /\ UsageEntries[i].t = "dict"
  /\ "store" \in DOMAIN UsageEntries[i].kv
  /\ UsageEntries[i].kv["store"] = RequestedStore

\* The value of field key in entry i, 0 when it has none.
UsageField(i, key) ==
  IF key \in DOMAIN UsageEntries[i].kv THEN UsageEntries[i].kv[key] ELSE Num(0)

\* C19: PBS get_datastore_status takes total, used and avail from the first
\* dict entry of the usage listing whose store equals the requested name;
\* when no entry matches, or the listing is no list, total_bytes, used_bytes,
\* available_bytes and percent_used are 0, and the call returns with the
\* fields of the datastore's config all the same.
C19_UsageOfFirstMatch ==
  StatusCall =>
    /\ outcome.value.datastore = RequestedStore
    /\ outcome.value.path = DictGet(Payload(1), "path", EmptyStr)
    /\ outcome.value.comment = DictGet(Payload(1), "comment", EmptyStr)
    /\ outcome.value.gc_schedule = DictGet(Payload(1), "gc-schedule", EmptyStr)
    /\ outcome.value.prune_schedule = DictGet(Payload(1), "prune-schedule", EmptyStr)
    /\ \A i \in DOMAIN UsageEntries :
         (StoreMatch(i) /\ \A j \in 1..(i - 1) : ~StoreMatch(j)) =>
           /\ outcome.value.total_bytes = UsageField(i, "total")
           /\ outcome.value.used_bytes = UsageField(i, "used")
           /\ outcome.value.available_bytes = UsageField(i, "avail")
    /\ (\A i \in DOMAIN UsageEntries : ~StoreMatch(i)) =>
           /\ outcome.value.total_bytes = Num(0)
           /\ outcome.value.used_bytes = Num(0)
           /\ outcome.value.available_bytes = Num(0)
           /\ outcome.value.percent_used = 0

C19_Witness ==
  /\ StatusCall
  /\ \E i, j \in DOMAIN UsageEntries :
       /\ i < j
       /\ StoreMatch(i)
       /\ StoreMatch(j)
       /\ \A k \in 1..(i - 1) : ~StoreMatch(k)
       /\ UsageField(i, "total") # UsageField(j, "total")
       /\ outcome.value.total_bytes = UsageField(i, "total")

\* The message the claim gives each transport exception, by the kind of
\* failure it stands for.
MessageOfKind(exc) ==
  CASE exc = "SSLError" -> "SSL Error"
    [] exc = "ConnectionError" ->
         (CASE call.sys = "pve" -> "Cannot reach Proxmox host"
            [] call.sys = "pbs" -> "Cannot reach PBS host"
            [] OTHER -> "Cannot reach host")
    [] exc \in {"ConnectTimeout", "ReadTimeout"} -> "Request timed out"
    [] OTHER ->
         (CASE call.sys = "pve" -> "Proxmox API failed"
            [] call.sys = "pbs" -> "PBS API failed"
            [] OTHER -> "API failed")

\* C20: _make_api_request reports a TLS failure with the SSL message, a
\* connection failure with the cannot-reach-host message, a timeout (while
\* connecting or while reading) with the timed-out message and any other
\* transport failure with the API-failed message, wherever the exception sits
\* in the exception hierarchy.
C20_MessageByFailureKind ==
  \A i \in DOMAIN requests :
    call.resps[i].t = "fail" =>
      /\ Raised
      /\ outcome.origin = "transport"
      /\ outcome.msg.text = MessageOfKind(call.resps[i].exc)

\* The operation functions that change something on the backend.
Mutating ==
  {<<"pve", f>> : f \in {"start_vm", "stop_vm", "reboot_vm", "shutdown_vm",
                         "start_container", "stop_container", "reboot_container"}}
  \cup {<<"pbs", f>> : f \in {"run_sync_job", "run_verify_job",
                              "run_garbage_collection", "run_prune"}}
  \cup {<<"whm", f>> : f \in {"suspend_account", "unsuspend_account", "restart_service"}}

\* The arguments the operation function was called with.
GivenArgs == IF Dispatched THEN invoked[1].args ELSE call.args

\* The action name each mutating operation puts in its envelope.
ActionName ==
  CASE Ran \in {"start_vm", "start_container"} -> "start"
    [] Ran \in {"stop_vm", "stop_container"} -> "stop"
    [] Ran \in {"reboot_vm", "reboot_container"} -> "reboot"
    [] Ran = "shutdown_vm" -> "shutdown"
    [] Ran \in {"run_sync_job", "run_verify_job"} -> "run"
    [] Ran = "run_garbage_collection" -> "gc"
    [] Ran = "run_prune" -> "prune"
    [] Ran = "suspend_account" -> "suspended"
    [] Ran = "unsuspend_account" -> "unsuspended"
    [] OTHER -> "restart"

\* The envelope a mutating operation is to return: the identifying arguments,
\* the action name and the payload of the one response (for suspend and
\* unsuspend the first item of the body's non-empty result list).
Envelope ==
  CASE call.sys = "pve" ->
         [node |-> GivenArgs[1], vmid |-> GivenArgs[2], action |-> ActionName,
          task_id |-> Payload(1)]
    [] Ran \in {"run_sync_job", "run_verify_job"} ->
         [job_id |-> GivenArgs[1], action |-> ActionName, task_id |-> Payload(1)]
    [] Ran = "run_garbage_collection" ->
         [datastore |-> GivenArgs[1], action |-> ActionName, task_id |-> Payload(1)]
    [] Ran = "run_prune" ->
         [datastore |-> GivenArgs[1], action |-> ActionName, result |-> Payload(1)]
    [] Ran = "restart_service" ->
         [service |-> GivenArgs[1], action |-> ActionName, result |-> call.resps[1].body]
    [] OTHER ->
         [account |-> GivenArgs[1], action |-> ActionName,
          result |-> IF /\ DictHas(call.resps[1].body, "result")
                        /\ call.resps[1].body.kv["result"].t = "list"
                        /\ call.resps[1].body.kv["result"].xs # <<>>
                     THEN call.resps[1].body.kv["result"].xs[1]
                     ELSE call.resps[1].body]

Plain == {Num(0), EmptyStr, List(<<>>)}

\* The fields whose default is another value: <<field, default>> for the
\* operation that ran.
OtherDefaults ==
  CASE call.sys = "pve" /\ Ran \in {"list_nodes", "list_vms", "list_containers"} ->
         {<<"status", Lit("unknown")>>}
    [] call.sys = "pve" /\ Ran = "get_vm_status" ->
         {<<"status", Lit("unknown")>>, <<"pid", None>>}
    [] call.sys = "pve" /\ Ran = "get_cluster_status" -> {<<"nodeid", None>>}
    [] call.sys = "pbs" /\ Ran = "get_task_status" -> {<<"status", Lit("unknown")>>}
    [] call.sys = "pbs" /\ Ran = "list_datastore_snapshots" ->
         {<<"verification", Dict(EmptyKv)>>, <<"protected", False>>}
    [] call.sys = "pbs" /\ Ran = "list_sync_jobs" -> {<<"remove_vanished", False>>}
    [] call.sys = "pbs" /\ Ran = "list_verify_jobs" -> {<<"ignore_verified", False>>}
    [] call.sys = "whm" /\ Ran = "get_server_resources" ->
         {<<"total", Lit("N/A")>>, <<"used", Lit("N/A")>>, <<"available", Lit("N/A")>>,
          <<"percent_used", Lit("N/A")>>}
    [] call.sys = "whm" /\ Ran = "list_accounts" ->
         {<<"suspended", False>>, <<"disk_used", Lit("0M")>>,
          <<"disk_limit", Lit("unlimited")>>}
    [] call.sys = "whm" /\ Ran = "list_domains" -> {<<"status", Lit("active")>>}
    [] call.sys = "whm" /\ Ran = "get_bandwidth" -> {<<"limit", Lit("unlimited")>>}
    [] call.sys = "whm" /\ Ran = "get_hostname" -> {<<"hostname", Lit("unknown")>>}
    [] call.sys = "whm" /\ Ran = "get_disk_usage" -> {<<"disk_limit_bytes", Num(1)>>}
    [] OTHER -> {}

\* Every field of record rec outside skip holds one of the values of
\* defaults, or the value others gives for it.
FieldsAre(rec, skip, defaults, others) ==
  \A f \in DOMAIN rec \ skip :
    rec[f] \in defaults \/ <<f, rec[f]>> \in others

\* The response of the call left every field out: each dict of the list for a
\* list operation, the one dict for the others.
AllAbsent ==
  /\ OperationRan
  /\ Returned
  /\ \A i \in DOMAIN call.resps : call.resps[i].t = "http"
  /\ IF ListField # ""
     THEN /\ ListPayload.t = "list"
          /\ \A i \in DOMAIN ListPayload.xs :
               ListPayload.xs[i].t = "dict" => ListPayload.xs[i] = Dict(EmptyKv)
     ELSE IF call.sys = "whm"
     THEN \A i \in DOMAIN call.resps : call.resps[i].body = Dict(EmptyKv)
     ELSE /\ Payload(1) = Dict(EmptyKv)
          /\ Ran = "get_datastore_status" => \A i \in DOMAIN UsageEntries : ~StoreMatch(i)

\* Each field an operation takes from the response holds, when the response
\* left it out, a value of defaults or the one others gives for it.  Fields
\* that repeat an argument or are computed from other fields are passed over.
AbsentFieldsAre(defaults, others) ==
  AllAbsent =>
    CASE ListField # "" ->
           \A i \in DOMAIN outcome.value[ListField] :
             FieldsAre(outcome.value[ListField][i],
                       {"cpu_usage", "percent_used", "memory_percent"}, defaults, others)
      [] Ran = "get_node_status" ->
           /\ FieldsAre(outcome.value, {"node", "cpu", "memory", "disk", "ksm"},
                        defaults, others)
           /\ FieldsAre(outcome.value.cpu, {"usage_percent"}, defaults, others)
           /\ FieldsAre(outcome.value.memory, {"percent_used"}, defaults, others)
           /\ FieldsAre(outcome.value.disk, {"percent_used"}, defaults, others)
           /\ call.sys = "pve" => FieldsAre(outcome.value.ksm, {}, defaults, others)
      [] Ran = "get_server_resources" ->
           /\ FieldsAre(outcome.value.cpu, {"status"}, defaults, others)
           /\ FieldsAre(outcome.value.disk, {}, defaults, others)
      [] Ran \in {"get_vm_status", "get_task_status", "get_datastore_status",
                  "get_hostname", "get_disk_usage"} ->
           FieldsAre(outcome.value,
                     IF Ran = "get_disk_usage"
                     THEN {"account", "status", "percent_used", "disk_usage_mb",
                           "disk_limit_mb"}
                     ELSE {"node", "vmid", "upid", "datastore", "cpu_usage", "percent_used"},
                     defaults, others)
      [] OTHER -> TRUE

\* C23 as stated: in every operation a field absent from the backend response
\* appears in the output as 0 when numeric, as the empty string when a
\* string and as an empty list when a collection (a flag may be false, a
\* nested object empty, an optional value null).
C23_AbsentFieldDefaults_AsStated ==
  AbsentFieldsAre(Plain \cup {False, Dict(EmptyKv), None}, {})

\* C23, amended: a field absent from the backend response appears in the
\* output as 0, the empty string or the empty list, except the fields that
\* have a default of their own: status ("unknown", for WHM domains
\* "active"), pid and nodeid (null), the flags protected, remove_vanished,
\* ignore_verified and suspended (false), verification (an empty object), and
\* in WHM the root partition's total, used, available and percent_used
\* ("N/A"), disk_used ("0M"), disk_limit and limit ("unlimited"), hostname
\* ("unknown") and the account's disk limit (1).
C23_AbsentFieldDefaults == AbsentFieldsAre(Plain, OtherDefaults)

C23_Witness ==
  /\ AllAbsent
  /\ call.sys = "pve"
  /\ Ran = "get_vm_status"
  /\ outcome.value.status = Lit("unknown")
  /\ outcome.value.name = EmptyStr
  /\ outcome.value.memory_used = Num(0)


\* The dict elements of the list payload, in the payload's order.
DictItems ==
  LET RECURSIVE keep(_)
      keep(xs) == IF xs = <<>> THEN <<>>
                  ELSE IF Head(xs).t = "dict" THEN <<Head(xs)>> \o keep(Tail(xs))
                  ELSE keep(Tail(xs))
  IN  keep(ListPayload.xs)

\* The fields of a reshaped entry that copy a number of the payload's
\* element, with the element's key: the entry shows which element it is of.
Copied ==
  CASE call.sys = "pve" /\ Ran = "list_nodes" ->
         {<<"memory_used", "mem">>, <<"memory_total", "maxmem">>}
    [] call.sys = "pve" /\ Ran = "list_storage" ->
         {<<"used_bytes", "used">>, <<"total_bytes", "total">>}
    [] OTHER -> {}

\* C24: a list operation whose payload is a list returns one reshaped entry
\* per dict element of the payload, in the payload's order, drops the
\* elements that are no dict without raising, and reports the number of dict
\* elements as its count.
C24_OneEntryPerDict ==
  (OperationRan /\ ListField # "" /\ ListPayload.t = "list") =>
    /\ Returned
    /\ Len(outcome.value[ListField]) = Len(DictItems)
    /\ outcome.value[CountField] = Len(DictItems)
    /\ \A i \in DOMAIN DictItems : \A c \in Copied :
         outcome.value[ListField][i][c[1]] = DictGet(DictItems[i], c[2], Num(0))

\* Two different dicts around a null arrive in their order, the null dropped.
C24_Witness ==
  /\ OperationRan /\ call.sys = "pve" /\ Ran = "list_nodes" /\ Returned
  /\ ListPayload.t = "list"
  /\ Len(ListPayload.xs) = 3
  /\ ListPayload.xs[2] = None
  /\ Len(outcome.value.nodes) = 2
  /\ outcome.value.total = 2
  /\ outcome.value.nodes[1].memory_used # outcome.value.nodes[2].memory_used
  /\ outcome.value.nodes[1].memory_used = DictGet(ListPayload.xs[1], "mem", Num(0))

\* The operations of Proxmox VE and PBS that take no argument.
NoArgument ==
  IF call.sys = "pve" THEN {"list_nodes", "get_cluster_status"}
  ELSE {"get_node_status", "list_datastores", "list_sync_jobs", "list_verify_jobs"}

\* C30: the Proxmox VE and PBS dispatchers call an operation without
\* arguments only when it takes none, so the trailing `return func()` is
\* never what runs an accepted command: no dispatched call fails for missing
\* positional arguments.
C30_FallbackUnreachable ==
  (Dispatched /\ call.sys \in {"pve", "pbs"} /\ invoked # <<>>) =>
    /\ invoked[1].args = <<>> => invoked[1].func \in NoArgument
    /\ ~(Raised /\ outcome.origin = "call")

\* An operation that requires arguments, dispatched with all of them.
C30_Witness ==
  /\ Dispatched /\ call.sys = "pbs" /\ invoked # <<>>
  /\ invoked[1].func = "run_prune"
  /\ Len(invoked[1].args) > 2
  /\ Returned

\* The step makes again the call of the state it starts from.
Repeats == call # NoCall /\ call' # NoCall

\* What a step may do if operations keep nothing between calls.
StatelessStep ==
  /\ config' = config
  /\ Repeats =>
       /\ IF requests = <<>>
          THEN requests' = <<>> /\ outcome' = outcome
          ELSE requests' # <<>> /\ requests'[1] = requests[1]
       /\ call'.resps = call.resps =>
            outcome' = outcome /\ requests' = requests /\ invoked' = invoked
       /\ (requests' # <<>> /\ call'.resps[1].t = "fail") =>
            (outcome'.status = "raise" /\ outcome'.origin = "transport")
       /\ (requests # <<>> /\ call.resps[1].t = "fail" /\ call'.resps[1].t = "http") =>
            <<outcome', requests'>> # <<outcome, requests>>

VoiceRan == call.entry = "run"

\* The turn the flow ran in.
Turn == call.bag

\* The sentences spoken, in order.
Spoken ==
  LET said == SelectSeq(voice.said, LAMBDA e : e.kind = "speak")
  IN  [i \in DOMAIN said |-> said[i].text]

\* How often the flow made a call of the kind.
Times(kind) == Cardinality({i \in DOMAIN voice.said : voice.said[i].kind = kind})

\* The capability's generic apology.
Apology ==
  CASE call.sys = "pve" ->
         "Sorry, something went wrong with the Proxmox request. Please check your server connection and try again."
    [] call.sys = "pbs" ->
         "Sorry, something went wrong with the Proxmox Backup Server request. Please check your connection and try again."
    [] OTHER ->
         "Sorry, something went wrong with the WHM request. Please check your server connection and try again."

\* C25: when a step of a voice flow's turn raises (an operation's transport
\* or API error, a failed int() of the VM id, a malformed intent, a failing
\* speak, listen or LLM call), the generic apology is spoken exactly once, as
\* the last sentence of the turn, and no exception leaves run.
C25_ApologyOnFailure ==
  (VoiceRan /\ voice.caught # "") =>
    /\ Cardinality({i \in DOMAIN Spoken : Spoken[i] = Apology}) = 1
    /\ Spoken[Len(Spoken)] = Apology
    /\ outcome.status = "ok"

\* The operations of the voice flows that change the backend.
VoiceMutations ==
  {"start_vm", "stop_vm", "reboot_vm", "shutdown_vm", "start_container", "stop_container",
   "reboot_container", "run_sync_job", "run_verify_job", "run_garbage_collection",
   "suspend_account", "unsuspend_account", "restart_service"}

\* Call i of the turn is a confirmation.
Confirms(i) == voice.said[i].kind = "run_confirmation_loop"

\* C26: a voice flow invokes a mutating operation only after
\* run_confirmation_loop returned true in the turn; after a declined
\* confirmation it calls no operation, sends no request and says "Okay, no
\* changes made." (when that can be spoken).
C26_ConfirmedBeforeMutation ==
  VoiceRan =>
    /\ \A i \in DOMAIN voice.said :
         (voice.said[i].kind = "operation" /\ voice.said[i].text \in VoiceMutations) =>
           (Turn.confirmed /\ \E j \in 1..(i - 1) : Confirms(j))
    /\ ((\E j \in DOMAIN voice.said : Confirms(j)) /\ ~Turn.confirmed) =>
         /\ invoked = <<>>
         /\ requests = <<>>
         /\ voice.caught = "" => Spoken[Len(Spoken)] = "Okay, no changes made."

\* C27: every run of a voice flow calls resume_normal_flow exactly once, as
\* its last step, whichever branch it took.
C27_ResumesOnce ==
  VoiceRan =>
    /\ Times("resume_normal_flow") = 1
    /\ voice.said[Len(voice.said)].kind = "resume_normal_flow"

\* The LLM's classification reply is a str that is no JSON value once the
\* fences are taken out: it holds other text, or no JSON at all.
Unparseable ==
  /\ Turn.reply.t = "str"
  /\ \/ \E i \in DOMAIN Turn.reply.s : Turn.reply.s[i].t = "text"
     \/ \A i \in DOMAIN Turn.reply.s : Turn.reply.s[i].t # "json"

Adverts ==
  CASE call.sys = "pve" -> pve_initialize
    [] call.sys = "pbs" -> pbs_initialize
    [] OTHER -> whm_initialize

AdvertisedNames(adverts) == UNION {adverts[i].names : i \in DOMAIN adverts}

\* The keys the command called is advertised to need, none when it is
\* advertised without "needs" (or not at all).
Needs ==
  UNION {IF Normalized \in Adverts[i].names /\ Adverts[i].word = "needs"
         THEN Adverts[i].keys ELSE {} : i \in DOMAIN Adverts}

\* The keys of the argument bag passed.
BagKeys == IF call.bag.t = "dict" THEN DOMAIN call.bag.kv ELSE {}

\* The dispatcher called the command's operation function.
Reached == invoked # <<>>

\* The names each initialize() advertises are the keys of its cmd_map.
AdvertisedAreKeys ==
  /\ AdvertisedNames(pve_initialize) = {pve_cmd_map[i][1] : i \in DOMAIN pve_cmd_map}
  /\ AdvertisedNames(pbs_initialize) = {pbs_cmd_map[i][1] : i \in DOMAIN pbs_cmd_map}
  /\ AdvertisedNames(whm_initialize) = {whm_cmd_map[i][1] : i \in DOMAIN whm_cmd_map}

\* The advertised names are the accepted names, and an accepted command
\* with an empty bag reaches its operation exactly when it needs nothing.
AdvertsMatchRouting ==
  /\ AdvertisedAreKeys
  /\ Dispatched =>
       /\ Routed # NoFunc <=> Normalized \in AdvertisedNames(Adverts)
       /\ (Routed # NoFunc /\ BagKeys = {}) => (Reached <=> Needs = {})

\* C29 as stated: the names advertised by initialize() are the names
\* execute_command accepts; a command reaches its operation with an empty bag
\* iff it is advertised without "needs"; and a command that needs keys
\* reaches its operation when exactly those keys are given with non-empty
\* values.
C29_AdvertisedIsAccepted_AsStated ==
  /\ AdvertsMatchRouting
  /\ (Dispatched /\ Needs # {} /\ BagKeys = Needs /\ \A k \in Needs : Truthy(Arg(k))) =>
       Reached

\* The dispatcher accepts the value given for the key.
Accepted(k) ==
  CASE k = "vmid" -> Arg(k).t = "int" \/ DecimalText(Arg(k))
    [] k \in {"account", "service"} -> Arg(k).t = "str" /\ str_strip(Arg(k).s) # <<>>
    [] OTHER -> Truthy(Arg(k))

\* C29, amended: as stated, but a command that needs keys reaches its
\* operation when exactly those keys are given with values the dispatcher
\* accepts: a vmid that is an integer or a decimal string, a WHM account or
\* service that is a string with something besides whitespace, and any
\* other key non-empty.
C29_AdvertisedIsAccepted ==
  /\ AdvertsMatchRouting
  /\ (Dispatched /\ Needs # {} /\ BagKeys = Needs /\ \A k \in Needs : Accepted(k)) =>
       Reached

\* stop_vm called with its two keys, the vmid as a decimal string.
C29_Witness ==
  /\ Dispatched /\ call.sys = "pve" /\ Routed = "stop_vm"
  /\ Needs = {"node", "vmid"}
  /\ BagKeys = Needs
  /\ Arg("vmid").t = "str"
  /\ Accepted("vmid")
  /\ Reached
  /\ invoked[1].args[2].t = "int"
====
